---------------------------- MODULE Spec2Model ----------------------------
(***************************************************************************)
(* Model of the checkapi provider-detection-and-verification engine:       *)
(* src/src/lib/providers/index.ts (runProviderCheck and its helpers) and   *)
(* the error classifier of src/unnamed/part_001.                           *)
(*                                                                         *)
(* Strings that the code inspects character by character (the API key)     *)
(* are sequences of one-character strings.  A nullable value v is the      *)
(* empty sequence (null) or the one-element sequence <<v>>.                *)
(***************************************************************************)
EXTENDS Integers, Sequences, FiniteSets, TLC

VARIABLES
    pc,                        \* position of the run: idle, loop, await_catalog, read_body, probe, await_strict, done
    params,                    \* the argument of runProviderCheck
    candidates,                \* const candidates (index.ts:108)
    ci,                        \* index of the candidate of the current loop iteration (index.ts:137)
    firstFailure,              \* index.ts:133
    authFailure,               \* index.ts:134
    strictUnavailableFailure,  \* index.ts:135
    pi,                        \* index of the strict probe of the current iteration (index.ts:301)
    lastUnavailableStatus,     \* index.ts:299
    returned,                  \* the value runProviderCheck returned (null while running)
    calls,                     \* every fetchWithTimeout call issued so far, in order
    inflight,                  \* the calls issued and not yet completed
    answers,                   \* what the transport did with each completed call, in order
    singleResults,             \* the values runSingleProviderCheck returned so far, in order
    timer,                     \* the timer of the pending fetchWithTimeout: unset, armed, fired, cleared
    elapsed,                   \* whether timeoutMs have passed since the pending call was issued
    response,                  \* the Response a catalog GET resolved with, while its body is read
    fn                         \* input and output of a pure function under check

runVars == <<pc, params, candidates, ci, firstFailure, authFailure,
             strictUnavailableFailure, pi, lastUnavailableStatus, returned,
             calls, inflight, answers, singleResults, timer, elapsed, response>>

vars == <<pc, params, candidates, ci, firstFailure, authFailure,
          strictUnavailableFailure, pi, lastUnavailableStatus, returned,
          calls, inflight, answers, singleResults, timer, elapsed, response, fn>>

-----------------------------------------------------------------------------
(* Nullable values *)

Null == <<>>

Some(v) == <<v>>

IsNull(o) == o = <<>>

Val(o) == o[1]

\* a ?? b
Coalesce(a, b) == IF IsNull(a) THEN b ELSE a

-----------------------------------------------------------------------------
(* Character strings *)

Str_sk == <<"s", "k">>
Str_dash == <<"-">>
Str_sk_ == <<"s", "k", "-">>
Str_ant == <<"a", "n", "t">>
Str_ant_ == <<"a", "n", "t", "-">>
Str_or_ == <<"o", "r", "-">>
Str_v1_ == <<"v", "1", "-">>
Str_proj_ == <<"p", "r", "o", "j", "-">>
Str_live_ == <<"l", "i", "v", "e", "-">>
Str_x == <<"x">>
Str_space == <<" ">>
Str_tab == <<"\t">>

\* The characters String.prototype.trim removes, as far as the keys of the model hold them.
WhiteSpace == {" ", "\t"}

RECURSIVE TrimStart(_)
TrimStart(s) ==
    IF s # <<>> /\ Head(s) \in WhiteSpace THEN TrimStart(Tail(s)) ELSE s

RECURSIVE TrimEnd(_)
TrimEnd(s) ==
    IF s # <<>> /\ s[Len(s)] \in WhiteSpace
    THEN TrimEnd(SubSeq(s, 1, Len(s) - 1))
    ELSE s

\* apiKey.trim()
Trim(s) == TrimEnd(TrimStart(s))

\* s.startsWith(prefix)
StartsWith(s, prefix) ==
    /\ Len(prefix) <= Len(s)
    /\ SubSeq(s, 1, Len(prefix)) = prefix

-----------------------------------------------------------------------------
(* Candidate detection *)

detectProviderCandidates_NoTrim(apiKey) ==
    LET normalized == apiKey IN
    IF StartsWith(normalized, Str_sk_ \o Str_ant_) THEN <<"anthropic">>
    ELSE IF \/ StartsWith(normalized, Str_sk_ \o Str_or_ \o Str_v1_)
            \/ StartsWith(normalized, Str_sk_ \o Str_or_) THEN <<"openrouter">>
    ELSE IF \/ StartsWith(normalized, Str_sk_ \o Str_proj_)
            \/ StartsWith(normalized, Str_sk_ \o Str_live_) THEN <<"openai">>
    ELSE IF StartsWith(normalized, Str_sk_) THEN <<"openrouter", "openai">>
    ELSE <<>>

detectProviderCandidates(apiKey) ==
    LET normalized == Trim(apiKey) IN
    IF StartsWith(normalized, Str_sk_ \o Str_ant_) THEN <<"anthropic">>
    ELSE IF \/ StartsWith(normalized, Str_sk_ \o Str_or_ \o Str_v1_)
            \/ StartsWith(normalized, Str_sk_ \o Str_or_) THEN <<"openrouter">>
    ELSE IF \/ StartsWith(normalized, Str_sk_ \o Str_proj_)
            \/ StartsWith(normalized, Str_sk_ \o Str_live_) THEN <<"openai">>
    ELSE IF StartsWith(normalized, Str_sk_) THEN <<"openrouter", "openai">>
    ELSE <<>>

-----------------------------------------------------------------------------
(* Errors *)

\* buildCheckError with providerStatus and retryAdvice given, as at every call site of the core
buildCheckError(errorCode, category, message, providerStatus, retryAdvice) ==
    [error_code |-> errorCode,
     category |-> category,
     message |-> message,
     retry_advice |-> retryAdvice,
     provider_status |-> providerStatus]

HttpTag(status) == "http_" \o ToString(status)

classifyHttpError_Only401(status, providerName) ==
    IF status = 401
    THEN buildCheckError("AUTH_FAILED", "auth",
             providerName \o ": authentication failed, key invalid or lacks permission",
             HttpTag(status),
             "check that the key is correct, not expired and entitled to the model")
    ELSE IF status = 429
    THEN buildCheckError("RATE_LIMITED", "provider",
             providerName \o ": rate limited",
             "rate_limited",
             "retry later, or check throttling and quota policy in the provider console")
    ELSE IF status >= 500
    THEN buildCheckError("PROVIDER_UNAVAILABLE", "provider",
             providerName \o ": service error (" \o ToString(status) \o ")",
             "degraded",
             "retry later and watch the provider status page")
    ELSE buildCheckError("PROVIDER_ERROR", "provider",
             providerName \o ": unexpected status (" \o ToString(status) \o ")",
             HttpTag(status),
             "retry later; if it persists check the provider API docs and the account")

classifyHttpError(status, providerName) ==
    IF status = 401 \/ status = 403
    THEN buildCheckError("AUTH_FAILED", "auth",
             providerName \o ": authentication failed, key invalid or lacks permission",
             HttpTag(status),
             "check that the key is correct, not expired and entitled to the model")
    ELSE IF status = 429
    THEN buildCheckError("RATE_LIMITED", "provider",
             providerName \o ": rate limited",
             "rate_limited",
             "retry later, or check throttling and quota policy in the provider console")
    ELSE IF status >= 500
    THEN buildCheckError("PROVIDER_UNAVAILABLE", "provider",
             providerName \o ": service error (" \o ToString(status) \o ")",
             "degraded",
             "retry later and watch the provider status page")
    ELSE buildCheckError("PROVIDER_ERROR", "provider",
             providerName \o ": unexpected status (" \o ToString(status) \o ")",
             HttpTag(status),
             "retry later; if it persists check the provider API docs and the account")

formatProviderName(provider) ==
    IF provider = "openai" THEN "OpenAI"
    ELSE IF provider = "openrouter" THEN "OpenRouter"
    ELSE IF provider = "anthropic" THEN "Anthropic"
    ELSE provider

-----------------------------------------------------------------------------
(* Adapter registry *)

Providers == {"openai", "anthropic", "openrouter"}

ProviderSelectors == Providers \cup {"auto"}

\* buildBody(targetModel) of a strict probe: the request shape and the model it names
ProbeBody(shape, targetModel) == [shape |-> shape, model |-> targetModel]

ADAPTERS ==
    [p \in Providers |->
        IF p = "openai" THEN
            [name |-> "openai",
             modelsEndpoint |-> "https://api.openai.com/v1/models",
             strictProbes |->
                <<[endpoint |-> "https://api.openai.com/v1/chat/completions",
                   shape |-> "chat_completions"],
                  [endpoint |-> "https://api.openai.com/v1/responses",
                   shape |-> "responses"]>>]
        ELSE IF p = "anthropic" THEN
            [name |-> "anthropic",
             modelsEndpoint |-> "https://api.anthropic.com/v1/models",
             strictProbes |->
                <<[endpoint |-> "https://api.anthropic.com/v1/messages",
                   shape |-> "messages"]>>]
        ELSE
            [name |-> "openrouter",
             modelsEndpoint |-> "https://openrouter.ai/api/v1/models",
             strictProbes |->
                <<[endpoint |-> "https://openrouter.ai/api/v1/chat/completions",
                   shape |-> "chat_completions"],
                  [endpoint |-> "https://openrouter.ai/api/v1/responses",
                   shape |-> "responses"]>>]]

\* adapter.buildHeaders(apiKey): header name and the key it carries
buildHeaders(p, apiKey) ==
    IF p = "anthropic"
    THEN {<<"x-api-key", apiKey>>, <<"anthropic-version", <<"2023-06-01">>>>}
    ELSE {<<"Authorization", <<"Bearer ">> \o apiKey>>}

\* The deadline handed to fetchWithTimeout
TimeoutMs == 8000

-----------------------------------------------------------------------------
(* Results *)

ProviderRunResult(provider, availability, models, quota_status, mode, target_model, errors) ==
    [provider |-> provider,
     availability |-> availability,
     models |-> models,
     quota_status |-> quota_status,
     mode |-> mode,
     target_model |-> target_model,
     errors |-> errors]

\* result.errors.some((error) => error.error_code === code)
HasErrorCode(r, code) ==
    \E i \in 1..Len(r.errors) : r.errors[i].error_code = code

\* Faulty variant of TargetModelMissing: only null counts, the empty string passes
TargetModelMissing_NullOnly(targetModel) == IsNull(targetModel)

\* !params.targetModel
TargetModelMissing(targetModel) ==
    IF IsNull(targetModel) THEN TRUE ELSE Val(targetModel) = ""

RateHintHeaders ==
    {"x-ratelimit-limit-requests",
     "x-ratelimit-remaining-requests",
     "x-ratelimit-limit-tokens",
     "anthropic-ratelimit-requests-limit",
     "anthropic-ratelimit-tokens-limit"}

\* Faulty variant of resolveQuotaStatus: without a rate hint the quota is "unavailable"
resolveQuotaStatus_Unavailable(headers) ==
    LET hasRateHint == \E key \in RateHintHeaders : key \in headers
    IN  IF hasRateHint THEN "available" ELSE "unavailable"

resolveQuotaStatus(headers) ==
    LET hasRateHint == \E key \in RateHintHeaders : key \in headers
    IN  IF hasRateHint THEN "available" ELSE "unknown"

\* JSON values: [t |-> "null"], [t |-> "string", s |-> ...], [t |-> "number"],
\* [t |-> "array", items |-> <<...>>], [t |-> "object", f |-> record]
IsJsObject(v) == v.t = "object" \/ v.t = "array"

HasKey(v, k) == v.t = "object" /\ k \in DOMAIN v.f

RECURSIVE FilterTruthy(_)
FilterTruthy(ids) ==
    IF ids = <<>> THEN <<>>
    ELSE IF IsNull(Head(ids)) \/ Val(Head(ids)) = ""
         THEN FilterTruthy(Tail(ids))
         ELSE <<Val(Head(ids))>> \o FilterTruthy(Tail(ids))

extractModelIds(payload) ==
    IF \/ ~IsJsObject(payload)
       \/ ~HasKey(payload, "data")
       \/ payload.f.data.t # "array"
    THEN <<>>
    ELSE
        LET data == payload.f.data.items
            idOf(item) ==
                IF ~IsJsObject(item) THEN Null
                ELSE IF HasKey(item, "id") /\ item.f.id.t = "string"
                     THEN Some(item.f.id.s)
                     ELSE Null
        IN  FilterTruthy([i \in 1..Len(data) |-> idOf(data[i])])

MaxModels == 50

\* Faulty variant of Slice0: the list is not truncated
Slice0_NoLimit(xs, n) == xs

\* xs.slice(0, n)
Slice0(xs, n) == SubSeq(xs, 1, IF Len(xs) < n THEN Len(xs) ELSE n)

-----------------------------------------------------------------------------
(* Inputs of a run and behaviours of the transport *)

\* Keys handed to runProviderCheck: one per detection rule, with and without padding
RunKeys ==
    {Str_sk_ \o Str_ant_ \o Str_x,
     Str_sk_ \o Str_or_ \o Str_v1_ \o Str_x,
     Str_sk_ \o Str_proj_ \o Str_x,
     Str_space \o Str_sk_ \o Str_x \o Str_space,
     Str_sk_ \o Str_x,
     Str_x \o Str_sk_}

TargetModels == {Null, Some(""), Some("gpt-x")}

\* Status codes a fetch Response can carry (200..599), chosen around every threshold the code tests
StatusCodes == {200, 204, 299, 301, 400, 401, 402, 403, 404, 418, 422, 429, 499, 500, 503, 599}

\* response.ok
IsOk(status) == status >= 200 /\ status <= 299

ResponseHeaderSets ==
    {{},
     {"content-type"},
     {"content-type", "x-ratelimit-limit-requests"},
     {"anthropic-ratelimit-tokens-limit"},
     {"retry-after", "x-ratelimit-remaining-requests"}}

JNull == [t |-> "null"]
JStr(s) == [t |-> "string", s |-> s]
JNum == [t |-> "number"]
JArr(items) == [t |-> "array", items |-> items]
JObj(f) == [t |-> "object", f |-> f]

CatalogItems ==
    {JObj([id |-> JStr("m1")]),
     JObj([id |-> JStr("m2"), object |-> JStr("model")]),
     JObj([id |-> JStr("")]),
     JObj([id |-> JNum]),
     JObj([name |-> JStr("m3")]),
     JStr("m4"),
     JNull}

MaxItems == 2

ItemLists == UNION {[1..n -> CatalogItems] : n \in 0..MaxItems}

\* A catalog of n entries, one in seven without an id
LongCatalog(n) ==
    [i \in 1..n |-> IF i % 7 = 3 THEN JObj([name |-> JStr("m" \o ToString(i))])
                    ELSE JObj([id |-> JStr("m" \o ToString(i))])]

\* Catalogs with fewer ids than MaxModels, exactly MaxModels ids, and more
LongItemLists == {LongCatalog(n) : n \in {MaxModels, MaxModels + 8, MaxModels + 10}}

\* Response bodies: text that is not JSON, or a JSON value
Bodies ==
    {[json |-> FALSE]}
    \cup {[json |-> TRUE, value |-> JObj([data |-> JArr(items)])] : items \in LongItemLists}
    \cup {[json |-> TRUE, value |-> v] :
            v \in {JNull, JStr("ok"), JArr(<<>>), JObj([error |-> JStr("x")]),
                   JObj([data |-> JNull]), JObj([data |-> JObj([id |-> JStr("m1")])])}}
    \cup {[json |-> TRUE, value |-> JObj([data |-> JArr(items)])] : items \in ItemLists}

\* What the awaited fetchWithTimeout does: rejects with an exception, or resolves with a Response
Thrown == {"AbortError", "TypeError"}

\* Faulty variant of IsTimeoutError: every exception is taken for a deadline abort
IsTimeoutError_Always(name) == TRUE

\* error instanceof Error && error.name === "AbortError"
IsTimeoutError(name) == name = "AbortError"

Call(url, method, provider, body, candidate) ==
    [url |-> url,
     method |-> method,
     headers |-> IF method = "POST"
                 THEN {<<"Content-Type", <<"application/json">>>>}
                      \cup buildHeaders(provider, params.apiKey)
                 ELSE buildHeaders(provider, params.apiKey),
     body |-> body,
     timeoutMs |-> TimeoutMs,
     candidate |-> candidate]

-----------------------------------------------------------------------------
(* Results built by runProviderCheck, runSingleProviderCheck and runStrictTargetModelCheck *)

NotDetectedResult(strictMode, targetModel) ==
    ProviderRunResult("unknown", "unavailable", <<>>, "unknown",
        IF strictMode THEN "strict_target" ELSE "catalog",
        targetModel,
        <<buildCheckError("PROVIDER_NOT_DETECTED", "validation",
              "cannot detect the provider, select one and retry",
              "unsupported_provider",
              "select OpenRouter, OpenAI or Anthropic and check again")>>)

MissingTargetModelResult(selectedProvider) ==
    ProviderRunResult(selectedProvider, "unavailable", <<>>, "unknown",
        "strict_target", Null,
        <<buildCheckError("MISSING_TARGET_MODEL", "validation",
              "strict check enabled, fill in the target model id",
              "missing_target_model",
              "for example fill in gpt-5.3-codex and check again")>>)

\* Faulty variant of QuotaErrors: the advisory entry is appended whatever the quota status
QuotaErrors_Always(quotaStatus, retryAdvice) ==
    <<buildCheckError("QUOTA_UNAVAILABLE", "quota",
          "quota information not available for now",
          "quota_unknown",
          retryAdvice)>>

QuotaErrors(quotaStatus, retryAdvice) ==
    IF quotaStatus # "available"
    THEN <<buildCheckError("QUOTA_UNAVAILABLE", "quota",
               "quota information not available for now",
               "quota_unknown",
               retryAdvice)>>
    ELSE <<>>

CatalogHttpErrorResult(selectedProvider, status) ==
    ProviderRunResult(selectedProvider, "unavailable", <<>>, "unknown",
        "catalog", Null,
        <<classifyHttpError(status, formatProviderName(selectedProvider))>>)

\* Faulty variant of CatalogAvailableResult: a catalog without model ids is a failure
CatalogAvailableResult_EmptyIsFailure(selectedProvider, payload, headers) ==
    LET models == Slice0(extractModelIds(payload), MaxModels)
        quotaStatus == resolveQuotaStatus(headers)
    IN  IF models = <<>>
        THEN ProviderRunResult(selectedProvider, "unavailable", <<>>, "unknown",
                 "catalog", Null,
                 <<buildCheckError("PROVIDER_ERROR", "provider",
                       "empty model catalog", "empty_catalog", "retry later")>>)
        ELSE ProviderRunResult(selectedProvider, "available", models, quotaStatus,
                 "catalog", Null,
                 QuotaErrors(quotaStatus,
                     "availability check done; retry later or see the provider console for live quota"))

CatalogAvailableResult(selectedProvider, payload, headers) ==
    LET models == Slice0(extractModelIds(payload), MaxModels)
        quotaStatus == resolveQuotaStatus(headers)
    IN  ProviderRunResult(selectedProvider, "available", models, quotaStatus,
            "catalog", Null,
            QuotaErrors(quotaStatus,
                "availability check done; retry later or see the provider console for live quota"))

ThrownError(name, timeoutMessage, otherMessage, timeoutAdvice) ==
    LET timeoutError == IsTimeoutError(name)
    IN  buildCheckError(
            IF timeoutError THEN "PROVIDER_TIMEOUT" ELSE "NETWORK_ERROR",
            "network",
            IF timeoutError THEN timeoutMessage ELSE otherMessage,
            IF timeoutError THEN "timeout" ELSE "network_error",
            IF timeoutError THEN timeoutAdvice
            ELSE "check the network connection and retry, see the provider status page if needed")

CatalogThrownResult(selectedProvider, name) ==
    ProviderRunResult(selectedProvider, "unavailable", <<>>, "unknown",
        "catalog", Null,
        <<ThrownError(name,
              "check timed out, retry later",
              "request to the provider API failed, check the network and retry",
              "retry later; on frequent timeouts change network or check off-peak")>>)

\* Faulty variant of StrictAvailableResult: the confirmed model is not listed
StrictAvailableResult_NoModels(provider, targetModel, headers) ==
    LET quotaStatus == resolveQuotaStatus(headers)
    IN  ProviderRunResult(provider, "available", <<>>, quotaStatus,
            "strict_target", Some(targetModel),
            QuotaErrors(quotaStatus,
                "strict check passed; retry later or see the provider console for live quota"))

StrictAvailableResult(provider, targetModel, headers) ==
    LET quotaStatus == resolveQuotaStatus(headers)
    IN  ProviderRunResult(provider, "available", <<targetModel>>, quotaStatus,
            "strict_target", Some(targetModel),
            QuotaErrors(quotaStatus,
                "strict check passed; retry later or see the provider console for live quota"))

StrictFailure(provider, targetModel, error) ==
    ProviderRunResult(provider, "unavailable", <<>>, "unknown",
        "strict_target", Some(targetModel), <<error>>)

StrictHttpErrorResult(provider, targetModel, status) ==
    StrictFailure(provider, targetModel,
        classifyHttpError(status, formatProviderName(provider)))

StrictProbeFailedResult(provider, targetModel, status) ==
    StrictFailure(provider, targetModel,
        buildCheckError("STRICT_PROBE_FAILED", "provider",
            formatProviderName(provider) \o ": strict check failed (" \o ToString(status) \o ")",
            HttpTag(status),
            "retry later; if it persists switch provider or confirm the model id"))

StrictThrownResult(provider, targetModel, name) ==
    StrictFailure(provider, targetModel,
        ThrownError(name,
            "strict check timed out, retry later",
            "strict check request failed, check the network and retry",
            "retry later; on frequent timeouts check off-peak"))

TargetModelUnavailableResult(provider, targetModel, lastStatus) ==
    StrictFailure(provider, targetModel,
        buildCheckError("TARGET_MODEL_UNAVAILABLE", "provider",
            "target model " \o targetModel \o " not available at "
                \o formatProviderName(provider) \o " or the key lacks permission",
            IF ~IsNull(lastStatus) THEN HttpTag(Val(lastStatus))
            ELSE "target_model_unavailable",
            "confirm the model id and the key's permissions, or switch provider and retry"))

-----------------------------------------------------------------------------
(* runProviderCheck *)

\* No run of runProviderCheck has started
RunIdle ==
    /\ pc = "idle"
    /\ params = Null
    /\ candidates = <<>>
    /\ ci = 1
    /\ firstFailure = Null
    /\ authFailure = Null
    /\ strictUnavailableFailure = Null
    /\ pi = 1
    /\ lastUnavailableStatus = Null
    /\ returned = Null
    /\ calls = <<>>
    /\ inflight = {}
    /\ answers = <<>>
    /\ singleResults = <<>>
    /\ timer = "unset"
    /\ elapsed = FALSE
    /\ response = Null

Init ==
    /\ RunIdle
    /\ fn = Null

\* Faulty variant of CandidatesOf: an undetected key falls back to openai
CandidatesOf_DefaultOpenAI(provider, apiKey) ==
    IF provider # "auto" THEN <<provider>>
    ELSE IF detectProviderCandidates(apiKey) = <<>> THEN <<"openai">>
    ELSE detectProviderCandidates(apiKey)

\* Faulty variant of CandidatesOf: the provider that an earlier run returned is kept
\* across runs and tried alone
CandidatesOf_PreferLast(provider, apiKey) ==
    IF provider # "auto" THEN <<provider>>
    ELSE IF IsNull(fn) THEN detectProviderCandidates(apiKey)
    ELSE IF Val(Val(fn).output).provider \in Providers
         THEN <<Val(Val(fn).output).provider>>
    ELSE detectProviderCandidates(apiKey)

\* Faulty variant of CandidatesOf: the key's prefix is tried before the provider named
CandidatesOf_PrefixFirst(provider, apiKey) ==
    IF provider = "auto" THEN detectProviderCandidates(apiKey)
    ELSE SelectSeq(detectProviderCandidates(apiKey), LAMBDA c : c # provider) \o <<provider>>

\* Faulty variant of CandidatesOf: a provider named by the caller is tried a second time
CandidatesOf_Twice(provider, apiKey) ==
    IF provider = "auto" THEN detectProviderCandidates(apiKey) ELSE <<provider, provider>>

\* const candidates = provider === "auto" ? detectProviderCandidates(apiKey) : [provider]
CandidatesOf(provider, apiKey) ==
    IF provider = "auto" THEN detectProviderCandidates(apiKey) ELSE <<provider>>

\* Faulty variant of Disposition: a network failure is retained and the loop goes on
Disposition_ContinueOnNetwork(result, strictMode) ==
    IF result.availability = "available" THEN "return"
    ELSE IF \/ HasErrorCode(result, "AUTH_FAILED")
            \/ HasErrorCode(result, "NETWORK_ERROR") THEN "retain_auth"
    ELSE IF strictMode /\ HasErrorCode(result, "TARGET_MODEL_UNAVAILABLE")
         THEN "retain_strict"
    ELSE "return"

\* Faulty variant of Disposition: no early return on an available result
Disposition_AvailableContinues(result, strictMode) ==
    IF HasErrorCode(result, "AUTH_FAILED") THEN "retain_auth"
    ELSE IF strictMode /\ HasErrorCode(result, "TARGET_MODEL_UNAVAILABLE")
         THEN "retain_strict"
    ELSE IF result.availability = "available" THEN "retain_strict"
    ELSE "return"

\* What the loop body does with the result of one candidate (index.ts:145-168)
Disposition(result, strictMode) ==
    IF result.availability = "available" THEN "return"
    ELSE IF HasErrorCode(result, "AUTH_FAILED") THEN "retain_auth"
    ELSE IF strictMode /\ HasErrorCode(result, "TARGET_MODEL_UNAVAILABLE")
         THEN "retain_strict"
    ELSE "return"

\* Faulty variant of ExhaustedResult: the strict-unavailable failure takes precedence
ExhaustedResult_StrictFirst(auth, strictUnavailable, first) ==
    Coalesce(strictUnavailable, Coalesce(auth, first))

\* return authFailure ?? strictUnavailableFailure ?? firstFailure!
ExhaustedResult(auth, strictUnavailable, first) ==
    Coalesce(auth, Coalesce(strictUnavailable, first))

\* Faulty variant of StrictOutcome: 422 is not among the inconclusive statuses
StrictOutcome_422Terminal(status) ==
    IF IsOk(status) THEN "available"
    ELSE IF status = 401 \/ status = 403 THEN "auth"
    ELSE IF status = 429 \/ status >= 500 THEN "classified"
    ELSE IF status = 400 \/ status = 404 THEN "inconclusive"
    ELSE "probe_failed"

\* Faulty variant of StrictOutcome: the inconclusive test comes first and takes every 4xx and 5xx but 401, 403, 429
StrictOutcome_ServerErrorInconclusive(status) ==
    IF IsOk(status) THEN "available"
    ELSE IF status = 401 \/ status = 403 THEN "auth"
    ELSE IF status = 429 THEN "classified"
    ELSE IF status = 400 \/ status = 404 \/ status = 422 \/ status >= 500 THEN "inconclusive"
    ELSE "probe_failed"

\* The branch runStrictTargetModelCheck takes on a response (index.ts:316-404)
StrictOutcome(status) ==
    IF IsOk(status) THEN "available"
    ELSE IF status = 401 \/ status = 403 THEN "auth"
    ELSE IF status = 429 \/ status >= 500 THEN "classified"
    ELSE IF status = 400 \/ status = 404 \/ status = 422 THEN "inconclusive"
    ELSE "probe_failed"

\* runProviderCheck called, candidate list empty: returns at once
StartRunNotDetected ==
    /\ pc = "idle"
    /\ \E provider \in ProviderSelectors, apiKey \in RunKeys,
          strictMode \in BOOLEAN, targetModel \in TargetModels :
        /\ CandidatesOf(provider, apiKey) = <<>>
        /\ params' = [provider |-> provider, apiKey |-> apiKey,
                      strictMode |-> strictMode, targetModel |-> targetModel]
        /\ candidates' = <<>>
        /\ returned' = Some(NotDetectedResult(strictMode, targetModel))
    /\ pc' = "done"
    /\ UNCHANGED <<ci, firstFailure, authFailure, strictUnavailableFailure, pi,
                   lastUnavailableStatus, calls, inflight, answers, singleResults, fn,
                   timer, elapsed, response>>

\* runProviderCheck called, some candidate: enters the loop
StartRun ==
    /\ pc = "idle"
    /\ \E provider \in ProviderSelectors, apiKey \in RunKeys,
          strictMode \in BOOLEAN, targetModel \in TargetModels :
        /\ CandidatesOf(provider, apiKey) # <<>>
        /\ params' = [provider |-> provider, apiKey |-> apiKey,
                      strictMode |-> strictMode, targetModel |-> targetModel]
        /\ candidates' = CandidatesOf(provider, apiKey)
    /\ pc' = "loop"
    /\ ci' = 1
    /\ firstFailure' = Null
    /\ authFailure' = Null
    /\ strictUnavailableFailure' = Null
    /\ UNCHANGED <<pi, lastUnavailableStatus, returned, calls, inflight,
                   answers, singleResults, fn,
                   timer, elapsed, response>>

\* Faulty variant of Settle: a retained auth failure is returned in place of a later result
Settle_PreferRetained(result) ==
    LET d == Disposition(result, params.strictMode)
        failed == result.availability # "available"
    IN  /\ singleResults' = Append(singleResults, result)
        /\ firstFailure' = IF failed /\ IsNull(firstFailure) THEN Some(result)
                           ELSE firstFailure
        /\ authFailure' = IF d = "retain_auth" THEN Some(result) ELSE authFailure
        /\ strictUnavailableFailure' =
              IF d = "retain_strict" THEN Some(result) ELSE strictUnavailableFailure
        /\ IF d = "return"
           THEN /\ returned' = Coalesce(authFailure, Some(result))
                /\ pc' = "done"
                /\ ci' = ci
           ELSE /\ returned' = returned
                /\ pc' = "loop"
                /\ ci' = ci + 1

\* The loop body after `await runSingleProviderCheck(...)` has produced `result`
\* Faulty variant of Settle: an available result takes over the errors of the retained
\* AUTH_FAILED failure
Settle_CarryAuthErrors(result) ==
    LET merged == IF result.availability = "available" /\ ~IsNull(authFailure)
                  THEN [result EXCEPT !.errors = Val(authFailure).errors \o @]
                  ELSE result
        d == Disposition(merged, params.strictMode)
        failed == merged.availability # "available"
    IN  /\ singleResults' = Append(singleResults, merged)
        /\ firstFailure' = IF failed /\ IsNull(firstFailure) THEN Some(merged)
                           ELSE firstFailure
        /\ authFailure' = IF d = "retain_auth" THEN Some(merged) ELSE authFailure
        /\ strictUnavailableFailure' =
              IF d = "retain_strict" THEN Some(merged) ELSE strictUnavailableFailure
        /\ IF d = "return"
           THEN /\ returned' = Some(merged)
                /\ pc' = "done"
                /\ ci' = ci
           ELSE /\ returned' = returned
                /\ pc' = "loop"
                /\ ci' = ci + 1

\* Faulty variant of Settle: the first auth failure is kept, later ones are dropped
Settle_KeepFirstAuth(result) ==
    LET d == Disposition(result, params.strictMode)
        failed == result.availability # "available"
    IN  /\ singleResults' = Append(singleResults, result)
        /\ firstFailure' = IF failed /\ IsNull(firstFailure) THEN Some(result)
                           ELSE firstFailure
        /\ authFailure' = IF d = "retain_auth" /\ IsNull(authFailure) THEN Some(result)
                          ELSE authFailure
        /\ strictUnavailableFailure' =
              IF d = "retain_strict" THEN Some(result) ELSE strictUnavailableFailure
        /\ IF d = "return"
           THEN /\ returned' = Some(result)
                /\ pc' = "done"
                /\ ci' = ci
           ELSE /\ returned' = returned
                /\ pc' = "loop"
                /\ ci' = ci + 1

Settle(result) ==
    LET d == Disposition(result, params.strictMode)
        failed == result.availability # "available"
    IN  /\ singleResults' = Append(singleResults, result)
        /\ firstFailure' = IF failed /\ IsNull(firstFailure) THEN Some(result)
                           ELSE firstFailure
        /\ authFailure' = IF d = "retain_auth" THEN Some(result) ELSE authFailure
        /\ strictUnavailableFailure' =
              IF d = "retain_strict" THEN Some(result) ELSE strictUnavailableFailure
        /\ IF d = "return"
           THEN /\ returned' = Some(result)
                /\ pc' = "done"
                /\ ci' = ci
           ELSE /\ returned' = returned
                /\ pc' = "loop"
                /\ ci' = ci + 1

\* for (const provider of candidates) has no candidate left
LoopExhausted ==
    /\ pc = "loop"
    /\ ci > Len(candidates)
    /\ returned' = ExhaustedResult(authFailure, strictUnavailableFailure, firstFailure)
    /\ pc' = "done"
    /\ UNCHANGED <<params, candidates, ci, firstFailure, authFailure,
                   strictUnavailableFailure, pi, lastUnavailableStatus, calls,
                   inflight, answers, singleResults, fn,
                   timer, elapsed, response>>

\* runSingleProviderCheck, strict mode without a target model
MissingTargetModel ==
    /\ pc = "loop"
    /\ ci <= Len(candidates)
    /\ params.strictMode
    /\ TargetModelMissing(params.targetModel)
    /\ Settle(MissingTargetModelResult(candidates[ci]))
    /\ UNCHANGED <<params, candidates, pi, lastUnavailableStatus, calls, inflight,
                   answers, fn,
                   timer, elapsed, response>>

\* runSingleProviderCheck, strict mode: enters runStrictTargetModelCheck
BeginStrictCheck ==
    /\ pc = "loop"
    /\ ci <= Len(candidates)
    /\ params.strictMode
    /\ ~TargetModelMissing(params.targetModel)
    /\ pi' = 1
    /\ lastUnavailableStatus' = Null
    /\ pc' = "probe"
    /\ UNCHANGED <<params, candidates, ci, firstFailure, authFailure,
                   strictUnavailableFailure, returned, calls, inflight,
                   answers, singleResults, fn,
                   timer, elapsed, response>>

\* runSingleProviderCheck, catalog mode: GET the models endpoint
\* What the transport does to the call at hand when the run is fed the recorded
\* behaviour of an earlier run (kept in fn): the answer recorded for that call
Fixture ==
    {Val(fn).transport[n] : n \in {Len(answers) + 1} \cap DOMAIN Val(fn).transport}

\* The behaviours of the transport for the call at hand: any at all, or what the
\* fixture says
StatusOffer ==
    IF IsNull(fn) THEN StatusCodes
    ELSE {a.status : a \in {x \in Fixture : x.kind = "response"}}

HeaderOffer ==
    IF IsNull(fn) THEN ResponseHeaderSets
    ELSE {Val(a.headers) : a \in {x \in Fixture : ~IsNull(x.headers)}}

BodyOffer ==
    IF IsNull(fn) THEN Bodies
    ELSE {Val(a.body) : a \in {x \in Fixture : ~IsNull(x.body)}}

ThrownOffer ==
    IF IsNull(fn) THEN Thrown
    ELSE {a.name : a \in {x \in Fixture : x.kind = "throw"}}

\* fetchWithTimeout is entered: setTimeout(() => controller.abort(), timeoutMs)
ArmTimer ==
    /\ timer' = "armed"
    /\ elapsed' = FALSE
    /\ response' = Null

\* fetch resolved with a Response before the timer fired; finally: clearTimeout(timer).
\* The code reads no body of this Response, so the call is over
FetchResolved ==
    /\ timer = "armed"
    /\ timer' = "cleared"
    /\ elapsed' = FALSE

\* fetch rejected: with AbortError once the timer has fired and aborted the signal, with
\* another exception before that; finally: clearTimeout(timer)
FetchRejected(name) ==
    /\ timer = (IF name = "AbortError" THEN "fired" ELSE "armed")
    /\ timer' = "cleared"
    /\ elapsed' = FALSE

\* timeoutMs have passed since the pending call was issued; the timer, if still
\* armed, fires and aborts the signal
DeadlineElapses ==
    /\ inflight # {}
    /\ ~elapsed
    /\ elapsed' = TRUE
    /\ timer' = IF timer = "armed" THEN "fired" ELSE timer
    /\ UNCHANGED <<pc, params, candidates, ci, firstFailure, authFailure,
                   strictUnavailableFailure, pi, lastUnavailableStatus, returned,
                   calls, inflight, answers, singleResults, response, fn>>

\* Faulty variant of IssueCatalogCall: the call is issued and not awaited, the loop goes
\* on to the next candidate at once
IssueCatalogCall_NoAwait ==
    /\ pc = "loop"
    /\ ci <= Len(candidates)
    /\ ~params.strictMode
    /\ LET adapter == ADAPTERS[candidates[ci]]
           call == Call(adapter.modelsEndpoint, "GET", adapter.name, Null, ci)
       IN  /\ calls' = Append(calls, call)
           /\ inflight' = inflight \cup {call}
    /\ ArmTimer
    /\ ci' = ci + 1
    /\ UNCHANGED <<pc, params, candidates, firstFailure, authFailure,
                   strictUnavailableFailure, pi, lastUnavailableStatus, returned,
                   answers, singleResults, fn>>

IssueCatalogCall ==
    /\ pc = "loop"
    /\ ci <= Len(candidates)
    /\ ~params.strictMode
    /\ LET adapter == ADAPTERS[candidates[ci]]
           call == Call(adapter.modelsEndpoint, "GET", adapter.name, Null, ci)
       IN  /\ calls' = Append(calls, call)
           /\ inflight' = inflight \cup {call}
    /\ ArmTimer
    /\ pc' = "await_catalog"
    /\ UNCHANGED <<params, candidates, ci, firstFailure, authFailure,
                   strictUnavailableFailure, pi, lastUnavailableStatus, returned,
                   answers, singleResults, fn>>

\* The call awaited by this iteration (the last one issued)
CurrentCall == calls[Len(calls)]

\* The awaited fetchWithTimeout resolved with a Response of this status
Responded(status) ==
    [candidate |-> ci, kind |-> "response", status |-> status, name |-> "", body |-> Null,
     headers |-> Null, late |-> elapsed]

\* The same, for a response whose headers the code goes on to read
RespondedHeaders(status, headers) ==
    [candidate |-> ci, kind |-> "response", status |-> status, name |-> "", body |-> Null,
     headers |-> Some(headers), late |-> elapsed]

\* The same, for a response whose body the code goes on to read
RespondedBody(status, body) ==
    [candidate |-> ci, kind |-> "response", status |-> status, name |-> "",
     body |-> Some(body), headers |-> Some(Val(response).headers), late |-> elapsed]

\* The awaited fetchWithTimeout rejected with an exception of this name
Rejected(name) ==
    [candidate |-> ci, kind |-> "throw", status |-> 0, name |-> name, body |-> Null,
     headers |-> Null, late |-> elapsed]

\* fetchWithTimeout rejected: the catch block of runSingleProviderCheck
CatalogThrows ==
    /\ pc = "await_catalog"
    /\ \E name \in ThrownOffer :
        /\ FetchRejected(name)
        /\ answers' = Append(answers, Rejected(name))
        /\ Settle(CatalogThrownResult(candidates[ci], name))
    /\ inflight' = inflight \ {CurrentCall}
    /\ response' = Null
    /\ UNCHANGED <<params, candidates, pi, lastUnavailableStatus, calls, fn>>

\* the catalog answered with a status outside 200..299
CatalogNotOk ==
    /\ pc = "await_catalog"
    /\ \E status \in StatusOffer :
        /\ ~IsOk(status)
        /\ answers' = Append(answers, Responded(status))
        /\ Settle(CatalogHttpErrorResult(candidates[ci], status))
    /\ inflight' = inflight \ {CurrentCall}
    /\ FetchResolved
    /\ response' = Null
    /\ UNCHANGED <<params, candidates, pi, lastUnavailableStatus, calls, fn>>

\* the catalog GET resolved with a 2xx Response: fetchWithTimeout returns it (the timer
\* is cleared) and the code goes on to await response.json()
CatalogResponseOk ==
    /\ pc = "await_catalog"
    /\ timer = "armed"
    /\ \E status \in StatusOffer, headers \in HeaderOffer :
        /\ IsOk(status)
        /\ response' = Some([status |-> status, headers |-> headers])
    /\ timer' = "cleared"
    /\ pc' = "read_body"
    /\ UNCHANGED <<params, candidates, ci, firstFailure, authFailure,
                   strictUnavailableFailure, pi, lastUnavailableStatus, returned,
                   calls, inflight, answers, singleResults, elapsed, fn>>

\* Faulty variant of CatalogOk: response.json() is awaited outside the try block, so a
\* body that is not JSON makes runProviderCheck reject
CatalogOk_JsonOutsideTry ==
    /\ pc = "read_body"
    /\ \E body \in BodyOffer :
        /\ answers' = Append(answers, RespondedBody(Val(response).status, body))
        /\ IF body.json
           THEN Settle(CatalogAvailableResult(candidates[ci], body.value,
                                              Val(response).headers))
           ELSE /\ pc' = "threw"
                /\ UNCHANGED <<ci, firstFailure, authFailure, strictUnavailableFailure,
                               returned, singleResults>>
    /\ inflight' = inflight \ {CurrentCall}
    /\ response' = Null
    /\ elapsed' = FALSE
    /\ UNCHANGED <<params, candidates, pi, lastUnavailableStatus, calls, timer, fn>>

\* await response.json() settled: the body is read as JSON; a body that is not JSON
\* makes response.json() reject, which the catch block turns into a failure
CatalogOk ==
    /\ pc = "read_body"
    /\ \E body \in BodyOffer :
        /\ answers' = Append(answers, RespondedBody(Val(response).status, body))
        /\ IF body.json
           THEN Settle(CatalogAvailableResult(candidates[ci], body.value,
                                              Val(response).headers))
           ELSE Settle(CatalogThrownResult(candidates[ci], "SyntaxError"))
    /\ inflight' = inflight \ {CurrentCall}
    /\ response' = Null
    /\ elapsed' = FALSE
    /\ UNCHANGED <<params, candidates, pi, lastUnavailableStatus, calls, timer, fn>>

-----------------------------------------------------------------------------
(* runStrictTargetModelCheck *)

StrictProbes == ADAPTERS[candidates[ci]].strictProbes

\* for (const probe of strictProbes): POST the next probe
IssueStrictProbe ==
    /\ pc = "probe"
    /\ pi <= Len(StrictProbes)
    /\ LET adapter == ADAPTERS[candidates[ci]]
           probe == StrictProbes[pi]
           call == Call(probe.endpoint, "POST", adapter.name,
                        Some(ProbeBody(probe.shape, Val(params.targetModel))), ci)
       IN  /\ calls' = Append(calls, call)
           /\ inflight' = inflight \cup {call}
    /\ ArmTimer
    /\ pc' = "await_strict"
    /\ UNCHANGED <<params, candidates, ci, firstFailure, authFailure,
                   strictUnavailableFailure, pi, lastUnavailableStatus, returned,
                   answers, singleResults, fn>>

\* every probe was inconclusive: TARGET_MODEL_UNAVAILABLE
StrictProbesExhausted ==
    /\ pc = "probe"
    /\ pi > Len(StrictProbes)
    /\ Settle(TargetModelUnavailableResult(candidates[ci], Val(params.targetModel),
                                           lastUnavailableStatus))
    /\ UNCHANGED <<params, candidates, pi, lastUnavailableStatus, calls, inflight,
                   answers, fn,
                   timer, elapsed, response>>

\* the probe answered 2xx
StrictOk ==
    /\ pc = "await_strict"
    /\ \E status \in StatusOffer, headers \in HeaderOffer :
        /\ StrictOutcome(status) = "available"
        /\ answers' = Append(answers, RespondedHeaders(status, headers))
        /\ Settle(StrictAvailableResult(candidates[ci], Val(params.targetModel), headers))
    /\ inflight' = inflight \ {CurrentCall}
    /\ FetchResolved
    /\ response' = Null
    /\ UNCHANGED <<params, candidates, pi, lastUnavailableStatus, calls, fn>>

\* the probe answered 401 or 403
StrictAuthFailed ==
    /\ pc = "await_strict"
    /\ \E status \in StatusOffer :
        /\ StrictOutcome(status) = "auth"
        /\ answers' = Append(answers, Responded(status))
        /\ Settle(StrictHttpErrorResult(candidates[ci], Val(params.targetModel), status))
    /\ inflight' = inflight \ {CurrentCall}
    /\ FetchResolved
    /\ response' = Null
    /\ UNCHANGED <<params, candidates, pi, lastUnavailableStatus, calls, fn>>

\* the probe answered 429 or a status >= 500
StrictRateLimitedOrDown ==
    /\ pc = "await_strict"
    /\ \E status \in StatusOffer :
        /\ StrictOutcome(status) = "classified"
        /\ answers' = Append(answers, Responded(status))
        /\ Settle(StrictHttpErrorResult(candidates[ci], Val(params.targetModel), status))
    /\ inflight' = inflight \ {CurrentCall}
    /\ FetchResolved
    /\ response' = Null
    /\ UNCHANGED <<params, candidates, pi, lastUnavailableStatus, calls, fn>>

\* the probe answered 400, 404 or 422: record the status, go on with the next probe
StrictInconclusive ==
    /\ pc = "await_strict"
    /\ \E status \in StatusOffer :
        /\ StrictOutcome(status) = "inconclusive"
        /\ answers' = Append(answers, Responded(status))
        /\ lastUnavailableStatus' = Some(status)
    /\ pi' = pi + 1
    /\ pc' = "probe"
    /\ inflight' = inflight \ {CurrentCall}
    /\ FetchResolved
    /\ response' = Null
    /\ UNCHANGED <<params, candidates, ci, firstFailure, authFailure,
                   strictUnavailableFailure, returned, calls, singleResults, fn>>

\* the probe answered any other status
StrictProbeFailed ==
    /\ pc = "await_strict"
    /\ \E status \in StatusOffer :
        /\ StrictOutcome(status) = "probe_failed"
        /\ answers' = Append(answers, Responded(status))
        /\ Settle(StrictProbeFailedResult(candidates[ci], Val(params.targetModel), status))
    /\ inflight' = inflight \ {CurrentCall}
    /\ FetchResolved
    /\ response' = Null
    /\ UNCHANGED <<params, candidates, pi, lastUnavailableStatus, calls, fn>>

\* fetchWithTimeout rejected: the catch block of runStrictTargetModelCheck
StrictThrows ==
    /\ pc = "await_strict"
    /\ \E name \in ThrownOffer :
        /\ FetchRejected(name)
        /\ answers' = Append(answers, Rejected(name))
        /\ Settle(StrictThrownResult(candidates[ci], Val(params.targetModel), name))
    /\ inflight' = inflight \ {CurrentCall}
    /\ response' = Null
    /\ UNCHANGED <<params, candidates, pi, lastUnavailableStatus, calls, fn>>

-----------------------------------------------------------------------------

Next ==
    \/ StartRunNotDetected
    \/ StartRun
    \/ LoopExhausted
    \/ MissingTargetModel
    \/ BeginStrictCheck
    \/ IssueCatalogCall
    \/ CatalogThrows
    \/ CatalogNotOk
    \/ CatalogResponseOk
    \/ CatalogOk
    \/ DeadlineElapses
    \/ IssueStrictProbe
    \/ StrictProbesExhausted
    \/ StrictOk
    \/ StrictAuthFailed
    \/ StrictRateLimitedOrDown
    \/ StrictInconclusive
    \/ StrictProbeFailed
    \/ StrictThrows

Spec == Init /\ [][Next]_vars

-----------------------------------------------------------------------------
(* Properties of the candidate loop of runProviderCheck *)

Failed(r) == r.availability = "unavailable"

\* A failure after which the loop goes on to the next candidate
ContinuableFailure(r) ==
    /\ Failed(r)
    /\ \/ HasErrorCode(r, "AUTH_FAILED")
       \/ params.strictMode /\ HasErrorCode(r, "TARGET_MODEL_UNAVAILABLE")

\* The candidates whose check has completed
Tried == 1..Len(singleResults)

\* C1: if every candidate before candidate B failed with AUTH_FAILED (or, in strict
\* mode, with TARGET_MODEL_UNAVAILABLE) and B's check is available, the run has
\* returned exactly B's result, whose provider is B, and no retained failure.
C1_FallbackReturnsAvailable ==
    \A b \in Tried :
        ( /\ singleResults[b].availability = "available"
          /\ \A a \in 1..(b - 1) : ContinuableFailure(singleResults[a]) )
        => /\ pc = "done"
           /\ returned = Some(singleResults[b])
           /\ Val(returned).availability = "available"
           /\ Val(returned).provider = candidates[b]

\* Candidate A failed with AUTH_FAILED, candidate B is available, B's result is returned
C1_Witness ==
    /\ pc = "done"
    /\ Len(singleResults) = 2
    /\ HasErrorCode(singleResults[1], "AUTH_FAILED")
    /\ ~IsNull(authFailure)
    /\ singleResults[2].availability = "available"
    /\ returned = Some(singleResults[2])

\* C2: a candidate's failure of any kind other than AUTH_FAILED (and, in strict mode,
\* TARGET_MODEL_UNAVAILABLE) is returned at once, also when an earlier failure had
\* been retained, and no call is ever issued for a later candidate.
C2_OtherFailureReturnsAtOnce ==
    \A k \in Tried :
        ( Failed(singleResults[k]) /\ ~ContinuableFailure(singleResults[k]) )
        => /\ pc = "done"
           /\ returned = Some(singleResults[k])
           /\ k = Len(singleResults)
           /\ \A c \in 1..Len(calls) : calls[c].candidate <= k
           /\ inflight = {}

\* A's AUTH_FAILED was retained, B failed with NETWORK_ERROR, B's failure is returned
C2_Witness ==
    /\ pc = "done"
    /\ Len(singleResults) = 2
    /\ authFailure = Some(singleResults[1])
    /\ HasErrorCode(singleResults[2], "NETWORK_ERROR")
    /\ returned = Some(singleResults[2])
    /\ returned # authFailure

\* The last candidate that failed with the given code
LastWith(code) ==
    LET K == {k \in Tried : HasErrorCode(singleResults[k], code)}
    IN  singleResults[CHOOSE k \in K : \A j \in K : j <= k]

AnyWith(code) == \E k \in Tried : HasErrorCode(singleResults[k], code)

\* Every candidate has been tried and none was available
AllTriedNoneAvailable ==
    /\ pc = "done"
    /\ candidates # <<>>
    /\ Len(singleResults) = Len(candidates)
    /\ \A k \in Tried : Failed(singleResults[k])

\* The result the precedence rule names: auth failure, else strict-unavailable, else first
PrecedenceHolds ==
    IF AnyWith("AUTH_FAILED")
    THEN \E k \in Tried : /\ HasErrorCode(singleResults[k], "AUTH_FAILED")
                          /\ returned = Some(singleResults[k])
    ELSE IF AnyWith("TARGET_MODEL_UNAVAILABLE")
    THEN \E k \in Tried : /\ HasErrorCode(singleResults[k], "TARGET_MODEL_UNAVAILABLE")
                          /\ returned = Some(singleResults[k])
    ELSE returned = Some(singleResults[1])

\* C3 as stated: whenever every candidate has been tried and none was available, the
\* run returns by precedence auth failure > strict-unavailable failure > first failure.
C3_PrecedenceWheneverAllTried ==
    AllTriedNoneAvailable => PrecedenceHolds

\* C3 amended: when the loop runs to exhaustion (every candidate failed with
\* AUTH_FAILED or, in strict mode, TARGET_MODEL_UNAVAILABLE), the run returns the
\* retained AUTH_FAILED result (that of the last candidate failing so) if any candidate
\* failed with AUTH_FAILED, otherwise the retained TARGET_MODEL_UNAVAILABLE result; a
\* last candidate failing with another kind has that failure returned instead.
C3_PrecedenceOnExhaustion ==
    AllTriedNoneAvailable =>
        IF \A k \in Tried : ContinuableFailure(singleResults[k])
        THEN /\ PrecedenceHolds
             /\ returned = Some(IF AnyWith("AUTH_FAILED") THEN LastWith("AUTH_FAILED")
                                ELSE LastWith("TARGET_MODEL_UNAVAILABLE"))
        ELSE returned = Some(singleResults[Len(singleResults)])

\* Strict mode, A = AUTH_FAILED and B = TARGET_MODEL_UNAVAILABLE: A's result is returned
C3_Witness ==
    /\ pc = "done"
    /\ params.strictMode
    /\ Len(singleResults) = 2
    /\ HasErrorCode(singleResults[1], "AUTH_FAILED")
    /\ HasErrorCode(singleResults[2], "TARGET_MODEL_UNAVAILABLE")
    /\ returned = Some(singleResults[1])

\* C4: once a candidate's check is available the run has returned that result, and no
\* call is issued afterwards: none for a later candidate, none left in flight.
C4_AvailableShortCircuits ==
    \A k \in Tried :
        singleResults[k].availability = "available"
        => /\ pc = "done"
           /\ returned = Some(singleResults[k])
           /\ k = Len(singleResults)
           /\ \A c \in 1..Len(calls) : calls[c].candidate <= k
           /\ Len(calls) = Len(answers)
           /\ inflight = {}

\* The first of two candidates is available: the second is never called
C4_Witness ==
    /\ pc = "done"
    /\ Len(candidates) = 2
    /\ Len(singleResults) = 1
    /\ singleResults[1].availability = "available"
    /\ \A c \in 1..Len(calls) : calls[c].candidate = 1
    /\ returned = Some(singleResults[1])

-----------------------------------------------------------------------------
(* Properties of the strict probe sequence of runStrictTargetModelCheck *)

\* The calls issued for candidate k, and what the transport did with them, in order
CallsOf(k) == SelectSeq(calls, LAMBDA c : c.candidate = k)

AnswersOf(k) == SelectSeq(answers, LAMBDA a : a.candidate = k)

RegistryProbes(k) == ADAPTERS[candidates[k]].strictProbes

OkAnswer(a) == a.kind = "response" /\ a.status \in 200..299

InconclusiveAnswer(a) == a.kind = "response" /\ a.status \in {400, 404, 422}

SingleError(r, code, category) ==
    /\ r.availability = "unavailable"
    /\ Len(r.errors) = 1
    /\ r.errors[1].error_code = code
    /\ r.errors[1].category = category

InconclusiveTag(status) ==
    IF status = 400 THEN "http_400"
    ELSE IF status = 404 THEN "http_404"
    ELSE "http_422"

StrictRun == pc # "idle" /\ params.strictMode

\* C5: for every adapter the probes are issued in registry order; a probe answered 400,
\* 404 or 422 is followed by the next probe; inconclusive probes followed by a 2xx give
\* available with models = [target_model]; all probes inconclusive give the single error
\* TARGET_MODEL_UNAVAILABLE with provider_status http_<status of the last probe>.
C5_StrictProbeSequence ==
    StrictRun =>
    \A k \in 1..Len(candidates) :
        LET cs == CallsOf(k)
            as == AnswersOf(k)
            probes == RegistryProbes(k)
        IN  /\ Len(cs) <= Len(probes)
            /\ \A j \in 1..Len(cs) :
                /\ cs[j].url = probes[j].endpoint
                /\ cs[j].method = "POST"
                /\ cs[j].body = Some(ProbeBody(probes[j].shape, Val(params.targetModel)))
            /\ \A j \in 1..Len(as) :
                (InconclusiveAnswer(as[j]) /\ j < Len(probes))
                => \/ Len(cs) > j
                   \/ pc = "probe" /\ ci = k /\ pi = j + 1
            /\ \A j \in 1..Len(cs) : \A i \in 1..(j - 1) : InconclusiveAnswer(as[i])
            /\ (k \in Tried /\ as # <<>>) =>
                /\ ( /\ OkAnswer(as[Len(as)])
                     /\ \A i \in 1..(Len(as) - 1) : InconclusiveAnswer(as[i]) )
                   => /\ singleResults[k].availability = "available"
                      /\ singleResults[k].models = <<Val(params.targetModel)>>
                /\ ( /\ Len(as) = Len(probes)
                     /\ \A i \in 1..Len(as) : InconclusiveAnswer(as[i]) )
                   => /\ SingleError(singleResults[k], "TARGET_MODEL_UNAVAILABLE", "provider")
                      /\ singleResults[k].errors[1].provider_status =
                            InconclusiveTag(as[Len(as)].status)

\* openrouter answered 404 then 422 (TARGET_MODEL_UNAVAILABLE, http_422); openai answered
\* 400 then 2xx (available)
C5_Witness ==
    /\ pc = "done"
    /\ params.strictMode
    /\ Len(singleResults) = 2
    /\ Len(AnswersOf(1)) = 2
    /\ AnswersOf(1)[1].status = 404
    /\ AnswersOf(1)[2].status = 422
    /\ singleResults[1].errors[1].error_code = "TARGET_MODEL_UNAVAILABLE"
    /\ singleResults[1].errors[1].provider_status = "http_422"
    /\ Len(AnswersOf(2)) = 2
    /\ AnswersOf(2)[1].status = 400
    /\ OkAnswer(AnswersOf(2)[2])
    /\ singleResults[2].models = <<"gpt-x">>

\* The verdict named for a conclusive probe answer
VerdictFor(r, a) ==
    IF a.kind = "throw"
    THEN IF a.name = "AbortError" THEN SingleError(r, "PROVIDER_TIMEOUT", "network")
         ELSE SingleError(r, "NETWORK_ERROR", "network")
    ELSE IF OkAnswer(a) THEN r.availability = "available"
    ELSE IF a.status \in {401, 403} THEN SingleError(r, "AUTH_FAILED", "auth")
    ELSE IF a.status = 429 THEN SingleError(r, "RATE_LIMITED", "provider")
    ELSE IF a.status >= 500 THEN SingleError(r, "PROVIDER_UNAVAILABLE", "provider")
    ELSE SingleError(r, "STRICT_PROBE_FAILED", "provider")

\* C6: every probe answer other than 400, 404, 422 is terminal: it is the last answer of
\* its adapter, no later probe of that adapter is issued, and the adapter's verdict is
\* the one named for that answer.
C6_ConclusiveProbeIsTerminal ==
    StrictRun =>
    \A k \in 1..Len(candidates) :
        LET cs == CallsOf(k)
            as == AnswersOf(k)
        IN  \A j \in 1..Len(as) :
                ~InconclusiveAnswer(as[j])
                => /\ j = Len(as)
                   /\ Len(cs) = j
                   /\ k \in Tried
                   /\ VerdictFor(singleResults[k], as[j])

\* The first of two registry probes answered 503: it is the only call, PROVIDER_UNAVAILABLE
C6_Witness ==
    /\ pc = "done"
    /\ params.strictMode
    /\ Len(singleResults) = 1
    /\ Len(RegistryProbes(1)) = 2
    /\ Len(calls) = 1
    /\ answers[1].status = 503
    /\ HasErrorCode(Val(returned), "PROVIDER_UNAVAILABLE")

-----------------------------------------------------------------------------
(* Properties of runs that issue no call *)

NoTargetModel == params.targetModel \in {Null, Some("")}

\* Every result the run has produced so far
Results == {singleResults[k] : k \in Tried} \cup {returned[i] : i \in 1..Len(returned)}

\* C7 as stated: for every provider selector and key, a strict run without a target model
\* returns MISSING_TARGET_MODEL (category validation) and issues no call.
C7_MissingTargetModelAlways ==
    (pc = "done" /\ params.strictMode /\ NoTargetModel)
    => /\ SingleError(Val(returned), "MISSING_TARGET_MODEL", "validation")
       /\ calls = <<>>

\* C7 amended: a strict run without a target model issues no call; it returns
\* MISSING_TARGET_MODEL (category validation) for the first candidate whenever the
\* candidate list is not empty (an explicit provider, or auto with a detected key), and
\* PROVIDER_NOT_DETECTED when the selector is auto and the key is not detected.
C7_MissingTargetModelUnlessUndetected ==
    (pc # "idle" /\ params.strictMode /\ NoTargetModel)
    => /\ calls = <<>>
       /\ inflight = {}
       /\ pc = "done" =>
            IF params.provider = "auto" /\ detectProviderCandidates(params.apiKey) = <<>>
            THEN SingleError(Val(returned), "PROVIDER_NOT_DETECTED", "validation")
            ELSE /\ SingleError(Val(returned), "MISSING_TARGET_MODEL", "validation")
                 /\ Val(returned).provider = candidates[1]
                 /\ Len(singleResults) = 1

\* auto, a bare sk- key (two candidates), strict mode with the empty string as target model
C7_Witness ==
    /\ pc = "done"
    /\ params.provider = "auto"
    /\ params.strictMode
    /\ params.targetModel = Some("")
    /\ Len(candidates) = 2
    /\ HasErrorCode(Val(returned), "MISSING_TARGET_MODEL")
    /\ calls = <<>>

\* C8: selector auto and an empty detection: the run returns at once provider "unknown",
\* unavailable, no models, the single error PROVIDER_NOT_DETECTED (validation), and
\* issues no call; provider "unknown" occurs in no other result.
C8_NotDetected ==
    /\ ( /\ pc # "idle"
         /\ params.provider = "auto"
         /\ detectProviderCandidates(params.apiKey) = <<>> )
       => /\ pc = "done"
          /\ calls = <<>>
          /\ singleResults = <<>>
          /\ Val(returned).provider = "unknown"
          /\ Val(returned).models = <<>>
          /\ SingleError(Val(returned), "PROVIDER_NOT_DETECTED", "validation")
    /\ \A r \in Results :
        r.provider = "unknown"
        => /\ params.provider = "auto"
           /\ detectProviderCandidates(params.apiKey) = <<>>
           /\ HasErrorCode(r, "PROVIDER_NOT_DETECTED")

\* auto with a key that matches no rule
C8_Witness ==
    /\ pc = "done"
    /\ params.provider = "auto"
    /\ params.apiKey = Str_x \o Str_sk_
    /\ Val(returned).provider = "unknown"
    /\ calls = <<>>

-----------------------------------------------------------------------------
(* detectProviderCandidates on a bounded set of keys *)

KeyPieces ==
    {Str_sk_, Str_ant_, Str_ant, Str_or_, Str_v1_, Str_proj_, Str_live_, Str_x,
     Str_space, Str_tab}

MaxSegs == 4

RECURSIVE Flatten(_)
Flatten(ss) == IF ss = <<>> THEN <<>> ELSE Head(ss) \o Flatten(Tail(ss))

\* Every concatenation of at most MaxSegs pieces
DetectKeys == {Flatten(ss) : ss \in UNION {[1..n -> KeyPieces] : n \in 0..MaxSegs}}

InitDetect ==
    /\ RunIdle
    /\ fn \in {[op |-> "detectProviderCandidates", input |-> key, done |-> FALSE,
                output |-> <<>>] : key \in DetectKeys}

ApplyDetect ==
    /\ fn.op = "detectProviderCandidates"
    /\ ~fn.done
    /\ fn' = [fn EXCEPT !.done = TRUE, !.output = detectProviderCandidates(fn.input)]
    /\ UNCHANGED runVars

SpecDetect == InitDetect /\ [][ApplyDetect]_vars

\* The key without its leading and trailing blanks
RefTrimmed(key) ==
    LET I == {i \in 1..Len(key) : key[i] # " " /\ key[i] # "\t"}
    IN  IF I = {} THEN <<>>
        ELSE SubSeq(key, CHOOSE i \in I : \A j \in I : i <= j,
                         CHOOSE i \in I : \A j \in I : j <= i)

RefHasPrefix(t, p) == Len(t) >= Len(p) /\ \A i \in 1..Len(p) : t[i] = p[i]

\* The table of prefixes
RefCandidates(key) ==
    LET t == RefTrimmed(key)
    IN  IF RefHasPrefix(t, <<"s", "k", "-", "a", "n", "t", "-">>) THEN <<"anthropic">>
        ELSE IF RefHasPrefix(t, <<"s", "k", "-", "o", "r", "-">>) THEN <<"openrouter">>
        ELSE IF \/ RefHasPrefix(t, <<"s", "k", "-", "p", "r", "o", "j", "-">>)
                \/ RefHasPrefix(t, <<"s", "k", "-", "l", "i", "v", "e", "-">>)
             THEN <<"openai">>
        ELSE IF RefHasPrefix(t, <<"s", "k", "-">>) THEN <<"openrouter", "openai">>
        ELSE <<>>

\* C9: on the trimmed key, detectProviderCandidates returns [anthropic] for sk-ant-,
\* [openrouter] for sk-or- (sk-or-v1- included), [openai] for sk-proj- or sk-live-,
\* [openrouter, openai] for any other sk- key, and [] for every other key.
C9_DetectMatchesTable ==
    fn.done => fn.output = RefCandidates(fn.input)

\* A padded sk-or-v1- key is detected as openrouter
C9_Witness ==
    /\ fn.done
    /\ fn.input = Str_space \o Str_sk_ \o Str_or_ \o Str_v1_
    /\ fn.output = <<"openrouter">>

-----------------------------------------------------------------------------
(* classifyHttpError on every status of a range *)

MinStatus == 100

MaxStatus == 599

InitClassify ==
    /\ RunIdle
    /\ fn \in {[op |-> "classifyHttpError",
                input |-> [status |-> status, providerName |-> formatProviderName(p)],
                done |-> FALSE,
                output |-> <<>>] : status \in MinStatus..MaxStatus, p \in Providers}

ApplyClassify ==
    /\ fn.op = "classifyHttpError"
    /\ ~fn.done
    /\ fn' = [fn EXCEPT !.done = TRUE,
                        !.output = classifyHttpError(fn.input.status, fn.input.providerName)]
    /\ UNCHANGED runVars

SpecClassify == InitClassify /\ [][ApplyClassify]_vars

\* C10: a non-2xx status has exactly one kind: 401, 403 -> AUTH_FAILED, category auth,
\* provider_status http_<status>; 429 -> RATE_LIMITED, provider; >= 500 ->
\* PROVIDER_UNAVAILABLE, provider, "degraded"; otherwise PROVIDER_ERROR, provider. Only
\* AUTH_FAILED has category auth.
C10_ClassifyHttpError ==
    (fn.done /\ fn.input.status \notin 200..299) =>
        LET status == fn.input.status
            e == fn.output
        IN  /\ IF status = 401
               THEN /\ e.error_code = "AUTH_FAILED"
                    /\ e.category = "auth"
                    /\ e.provider_status = "http_401"
               ELSE IF status = 403
               THEN /\ e.error_code = "AUTH_FAILED"
                    /\ e.category = "auth"
                    /\ e.provider_status = "http_403"
               ELSE IF status = 429
               THEN e.error_code = "RATE_LIMITED" /\ e.category = "provider"
               ELSE IF status >= 500
               THEN /\ e.error_code = "PROVIDER_UNAVAILABLE"
                    /\ e.category = "provider"
                    /\ e.provider_status = "degraded"
               ELSE e.error_code = "PROVIDER_ERROR" /\ e.category = "provider"
            /\ e.category = "auth" <=> e.error_code = "AUTH_FAILED"

\* 403 is classified AUTH_FAILED with provider_status http_403
C10_Witness ==
    /\ fn.done
    /\ fn.input.status = 403
    /\ fn.output.error_code = "AUTH_FAILED"
    /\ fn.output.provider_status = "http_403"

-----------------------------------------------------------------------------
(* Properties of the catalog check of runSingleProviderCheck *)

CatalogRun == pc # "idle" /\ ~params.strictMode

\* The one answer the transport gave to candidate k's catalog GET
CatalogAnswer(k) == AnswersOf(k)[1]

NoModelsNoQuota(r) == r.models = <<>> /\ r.quota_status = "unknown"

\* C11: a non-2xx answer to the catalog GET yields unavailable with exactly the error
\* classifyHttpError(status); an aborted call yields unavailable with PROVIDER_TIMEOUT;
\* any other transport exception yields unavailable with NETWORK_ERROR (both category
\* network); in each case models = [] and quota_status = unknown.
C11_CatalogFailureOutcomes ==
    CatalogRun =>
    \A k \in Tried :
        LET a == CatalogAnswer(k)
            r == singleResults[k]
        IN  /\ Len(AnswersOf(k)) = 1
            /\ (a.kind = "response" /\ ~OkAnswer(a))
               => /\ r.availability = "unavailable"
                  /\ r.errors = <<classifyHttpError(a.status,
                                       formatProviderName(candidates[k]))>>
                  /\ NoModelsNoQuota(r)
            /\ (a.kind = "throw" /\ a.name = "AbortError")
               => SingleError(r, "PROVIDER_TIMEOUT", "network") /\ NoModelsNoQuota(r)
            /\ (a.kind = "throw" /\ a.name # "AbortError")
               => SingleError(r, "NETWORK_ERROR", "network") /\ NoModelsNoQuota(r)

\* The first candidate's catalog GET was answered 401, the second one's was aborted
C11_Witness ==
    /\ CatalogRun
    /\ pc = "done"
    /\ Len(singleResults) = 2
    /\ CatalogAnswer(1).kind = "response" /\ CatalogAnswer(1).status = 401
    /\ CatalogAnswer(2).kind = "throw" /\ CatalogAnswer(2).name = "AbortError"
    /\ returned = Some(singleResults[2])

\* The body read from a response: it parses as JSON and carries a data array
ParsesAsJson(a) == Val(a.body).json

HasDataArray(v) ==
    IF v.t # "object" THEN FALSE
    ELSE IF "data" \notin DOMAIN v.f THEN FALSE
    ELSE v.f.data.t = "array"

BodyHasDataArray(a) == IF ParsesAsJson(a) THEN HasDataArray(Val(a.body).value) ELSE FALSE

EmptyCatalogIsAvailable(r) == r.availability = "available" /\ r.models = <<>>

\* C12 as stated: every 2xx answer to the catalog GET whose body has no data array
\* yields available with models = [].
C12_NoDataArrayIsAvailable ==
    CatalogRun =>
    \A k \in Tried :
        (OkAnswer(CatalogAnswer(k)) /\ ~BodyHasDataArray(CatalogAnswer(k)))
        => EmptyCatalogIsAvailable(singleResults[k])

\* C12 amended: every 2xx answer to the catalog GET whose body parses as JSON and has no
\* data array yields available with models = []; a 2xx answer whose body does not
\* parse as JSON yields unavailable with the single error NETWORK_ERROR.
C12_JsonWithoutDataArrayIsAvailable ==
    CatalogRun =>
    \A k \in Tried :
        LET a == CatalogAnswer(k)
        IN  OkAnswer(a) =>
            /\ (ParsesAsJson(a) /\ ~BodyHasDataArray(a))
               => EmptyCatalogIsAvailable(singleResults[k])
            /\ ~ParsesAsJson(a)
               => SingleError(singleResults[k], "NETWORK_ERROR", "network")

\* A 2xx answer whose JSON body is an object without data gave an available result
C12_Witness ==
    /\ CatalogRun
    /\ pc = "done"
    /\ \E k \in Tried :
        /\ OkAnswer(CatalogAnswer(k))
        /\ ParsesAsJson(CatalogAnswer(k))
        /\ Val(CatalogAnswer(k).body).value = JObj([error |-> JStr("x")])
        /\ returned = Some(singleResults[k])
        /\ EmptyCatalogIsAvailable(singleResults[k])

\* The id values of the entries that are objects bearing a string id, in response order;
\* with keepEmpty = FALSE the empty string does not count as an id
RECURSIVE StringIds(_, _)
StringIds(items, keepEmpty) ==
    IF items = <<>> THEN <<>>
    ELSE LET item == Head(items)
             bears == IF item.t # "object" THEN FALSE
                      ELSE IF "id" \notin DOMAIN item.f THEN FALSE
                      ELSE IF item.f.id.t # "string" THEN FALSE
                      ELSE keepEmpty \/ item.f.id.s # ""
         IN  (IF bears THEN <<item.f.id.s>> ELSE <<>>) \o StringIds(Tail(items), keepEmpty)

DataEntries(a) == IF BodyHasDataArray(a) THEN Val(a.body).value.f.data.items ELSE <<>>

First50(ids) == SubSeq(ids, 1, IF Len(ids) < 50 THEN Len(ids) ELSE 50)

\* C13 as stated: for a 2xx catalog response the models list is the first 50, in response
\* order, of the ids of the data entries bearing a string id; it never exceeds 50 entries.
C13_ModelsAreStringIds ==
    CatalogRun =>
    \A k \in Tried :
        OkAnswer(CatalogAnswer(k))
        => /\ singleResults[k].models = First50(StringIds(DataEntries(CatalogAnswer(k)), TRUE))
           /\ Len(singleResults[k].models) <= 50

\* C13 amended: the models list is the first 50, in response order, of the ids of the
\* data entries bearing a non-empty string id; an entry whose id is the empty string is
\* dropped like an entry without a string id; the list never exceeds 50 entries.
C13_ModelsAreNonEmptyStringIds ==
    CatalogRun =>
    \A k \in Tried :
        OkAnswer(CatalogAnswer(k))
        => /\ singleResults[k].models = First50(StringIds(DataEntries(CatalogAnswer(k)), FALSE))
           /\ Len(singleResults[k].models) <= 50

\* A catalog with entries lacking an id and more than 50 ids was cut to its first 50 ids
C13_Witness ==
    /\ CatalogRun
    /\ pc = "done"
    /\ \E k \in Tried :
        LET entries == DataEntries(CatalogAnswer(k))
            ids == StringIds(entries, FALSE)
        IN  /\ OkAnswer(CatalogAnswer(k))
            /\ Len(ids) > 50
            /\ Len(ids) < Len(entries)
            /\ Len(singleResults[k].models) = 50
            /\ singleResults[k].models[50] = ids[50]
            /\ returned = Some(singleResults[k])

-----------------------------------------------------------------------------
(* Invariants of the results of runProviderCheck *)

HasQuotaEntry(r) == \E i \in 1..Len(r.errors) : r.errors[i].error_code = "QUOTA_UNAVAILABLE"

HasAuthEntry(r) == \E i \in 1..Len(r.errors) : r.errors[i].category = "auth"

\* C14: in every result the errors list contains a QUOTA_UNAVAILABLE entry (category
\* quota) if and only if availability = available and quota_status is not available; the
\* entry never appears in an unavailable result.
C14_QuotaIsAdvisory ==
    \A r \in Results :
        /\ HasQuotaEntry(r) <=> (r.availability = "available" /\ r.quota_status # "available")
        /\ HasQuotaEntry(r) => r.availability # "unavailable"
        /\ \A i \in 1..Len(r.errors) :
            r.errors[i].error_code = "QUOTA_UNAVAILABLE" => r.errors[i].category = "quota"

\* Both kinds of available result were produced: one with the advisory entry (quota
\* unknown) returned by a strict run
C14_Witness ==
    /\ pc = "done"
    /\ params.strictMode
    /\ Val(returned).availability = "available"
    /\ Val(returned).quota_status = "unknown"
    /\ HasQuotaEntry(Val(returned))

\* C15: in every returned result, availability = available implies that errors contains
\* no entry of category auth.
C15_AvailableHasNoAuthError ==
    pc = "done" =>
        (Val(returned).availability = "available" => ~HasAuthEntry(Val(returned)))

\* An available result returned after an earlier candidate failed with AUTH_FAILED
C15_Witness ==
    /\ pc = "done"
    /\ ~IsNull(authFailure)
    /\ HasAuthEntry(Val(authFailure))
    /\ Val(returned).availability = "available"
    /\ Val(returned).errors # <<>>

\* C16: in every returned result with mode = strict_target, models has length at most 1;
\* when non-empty its element equals the result's target_model, which is the requested
\* target model; models is non-empty exactly when availability = available.
C16_StrictModelsIsTargetModel ==
    (pc = "done" /\ Val(returned).mode = "strict_target") =>
        LET r == Val(returned)
        IN  /\ Len(r.models) <= 1
            /\ r.models # <<>> => /\ r.target_model = params.targetModel
                                  /\ r.models = <<Val(r.target_model)>>
            /\ r.models # <<>> <=> r.availability = "available"

\* A strict run returned available with the requested model after a failed candidate
C16_Witness ==
    /\ pc = "done"
    /\ Val(returned).mode = "strict_target"
    /\ Val(returned).availability = "available"
    /\ Val(returned).models = <<"gpt-x">>
    /\ Len(singleResults) = 2

-----------------------------------------------------------------------------
(* calculateHealthScore, applied to every combination of availability, models, quota
   status and error list of at most MaxErrors entries *)

Min(a, b) == IF a < b THEN a ELSE b

Max(a, b) == IF a > b THEN a ELSE b

\* params.errors.some((error) => error.category === category)
SomeCategory(errors, category) == \E i \in 1..Len(errors) : errors[i].category = category

\* params.errors.some((error) => error.error_code === code)
SomeCode(errors, code) == \E i \in 1..Len(errors) : errors[i].error_code = code

\* Faulty variant of calculateHealthScore: an auth error does not cap the score
calculateHealthScore_NoAuthCap(availability, models, quotaStatus, errors) ==
    LET s1 == IF availability = "available" THEN 50 ELSE 0
        s2 == IF Len(models) > 0 THEN s1 + 30 ELSE s1
        s3 == IF quotaStatus = "available" THEN s2 + 20
              ELSE IF quotaStatus = "unknown" THEN s2 + 8
              ELSE s2
        s5 == IF SomeCode(errors, "PROVIDER_TIMEOUT")
              THEN Max(s3 - 10, 0) ELSE s3
    IN  Max(0, Min(100, s5))

\* Faulty variant of calculateHealthScore: the timeout penalty is taken before the auth cap
calculateHealthScore_TimeoutFirst(availability, models, quotaStatus, errors) ==
    LET s1 == IF availability = "available" THEN 50 ELSE 0
        s2 == IF Len(models) > 0 THEN s1 + 30 ELSE s1
        s3 == IF quotaStatus = "available" THEN s2 + 20
              ELSE IF quotaStatus = "unknown" THEN s2 + 8
              ELSE s2
        s4 == IF SomeCode(errors, "PROVIDER_TIMEOUT")
              THEN Max(s3 - 10, 0) ELSE s3
        s5 == IF SomeCategory(errors, "auth")
              THEN Min(s4, 20) ELSE s4
    IN  Max(0, Min(100, s5))

\* Faulty variant of calculateHealthScore: an unknown quota earns the full quota bonus
calculateHealthScore_UnknownAsAvailable(availability, models, quotaStatus, errors) ==
    LET s1 == IF availability = "available" THEN 50 ELSE 0
        s2 == IF Len(models) > 0 THEN s1 + 30 ELSE s1
        s3 == IF quotaStatus = "available" \/ quotaStatus = "unknown" THEN s2 + 20 ELSE s2
        s4 == IF SomeCategory(errors, "auth")
              THEN Min(s3, 20) ELSE s3
        s5 == IF SomeCode(errors, "PROVIDER_TIMEOUT")
              THEN Max(s4 - 10, 0) ELSE s4
    IN  Max(0, Min(100, s5))

calculateHealthScore(availability, models, quotaStatus, errors) ==
    LET s1 == IF availability = "available" THEN 50 ELSE 0
        s2 == IF Len(models) > 0 THEN s1 + 30 ELSE s1
        s3 == IF quotaStatus = "available" THEN s2 + 20
              ELSE IF quotaStatus = "unknown" THEN s2 + 8
              ELSE s2
        s4 == IF SomeCategory(errors, "auth")
              THEN Min(s3, 20) ELSE s3
        s5 == IF SomeCode(errors, "PROVIDER_TIMEOUT")
              THEN Max(s4 - 10, 0) ELSE s4
    IN  Max(0, Min(100, s5))

Availabilities == {"available", "unavailable"}

QuotaStatuses == {"available", "unavailable", "unknown"}

ModelLists == {<<>>, <<"m1">>, <<"m2", "m1">>}

\* CheckError values: every category, the codes the score looks at, and a code and a
\* category paired as the type allows but no classifier produces
ScoreErrors ==
    {buildCheckError("AUTH_FAILED", "auth", "m", "http_401", "a"),
     buildCheckError("PROVIDER_TIMEOUT", "network", "m", "timeout", "a"),
     buildCheckError("PROVIDER_TIMEOUT", "auth", "m", "timeout", "a"),
     buildCheckError("QUOTA_UNAVAILABLE", "quota", "m", "quota_unknown", "a"),
     buildCheckError("NETWORK_ERROR", "network", "m", "network_error", "a")}

MaxErrors == 2

ErrorLists(pool) == UNION {[1..n -> pool] : n \in 0..MaxErrors}

InitScore ==
    /\ RunIdle
    /\ fn \in {[op |-> "calculateHealthScore",
                input |-> [availability |-> a, models |-> ms, quotaStatus |-> q, errors |-> es],
                done |-> FALSE,
                output |-> <<>>] :
               a \in Availabilities, ms \in ModelLists, q \in QuotaStatuses,
               es \in ErrorLists(ScoreErrors)}

ApplyScore ==
    /\ fn.op = "calculateHealthScore"
    /\ ~fn.done
    /\ fn' = [fn EXCEPT !.done = TRUE,
                        !.output = calculateHealthScore(fn.input.availability, fn.input.models,
                                                        fn.input.quotaStatus, fn.input.errors)]
    /\ UNCHANGED runVars

SpecScore == InitScore /\ [][ApplyScore]_vars

InputHasAuth == \E i \in 1..Len(fn.input.errors) : fn.input.errors[i].category = "auth"

InputHasTimeout ==
    \E i \in 1..Len(fn.input.errors) : fn.input.errors[i].error_code = "PROVIDER_TIMEOUT"

\* C17: for all inputs calculateHealthScore returns an integer in [0, 100], and at most
\* 20 whenever some error has category auth.
C17_ScoreRangeAndAuthCap ==
    fn.done =>
        /\ fn.output \in 0..100
        /\ InputHasAuth => fn.output <= 20

\* An available result with models, quota available and an auth error scores exactly 20
C17_Witness ==
    /\ fn.done
    /\ fn.input.availability = "available"
    /\ fn.input.models # <<>>
    /\ fn.input.quotaStatus = "available"
    /\ InputHasAuth
    /\ ~InputHasTimeout
    /\ fn.output = 20

\* The reference formula of the score
RefBase ==
    (IF fn.input.availability = "available" THEN 50 ELSE 0)
    + (IF fn.input.models # <<>> THEN 30 ELSE 0)
    + (CASE fn.input.quotaStatus = "available" -> 20
         [] fn.input.quotaStatus = "unknown" -> 8
         [] fn.input.quotaStatus = "unavailable" -> 0)

RefCapped == IF InputHasAuth /\ RefBase > 20 THEN 20 ELSE RefBase

RefPenalised ==
    IF ~InputHasTimeout THEN RefCapped
    ELSE IF RefCapped < 10 THEN 0
    ELSE RefCapped - 10

RefScore == IF RefPenalised > 100 THEN 100 ELSE IF RefPenalised < 0 THEN 0 ELSE RefPenalised

\* C18: calculateHealthScore equals the reference formula for all inputs: base 50 + 30 +
\* (20 | 8 | 0), then the auth cap min(s, 20), then the timeout penalty max(s - 10, 0),
\* then the clamp to [0, 100]; the auth cap is applied before the timeout penalty.
C18_ScoreEqualsReference ==
    fn.done => fn.output = RefScore

\* Full base score with both an auth error and a timeout: capped to 20, then 10
C18_Witness ==
    /\ fn.done
    /\ RefBase = 100
    /\ InputHasAuth
    /\ InputHasTimeout
    /\ fn.output = 10

-----------------------------------------------------------------------------
(* buildNextActions, applied to every combination of availability, models, quota status
   and error list of at most MaxErrors entries *)

ModelSuggestion(model) == "try this model first: " \o model

QuotaSuggestion == "quota information not available, see the provider console for live quota"

PassedSuggestion == "check passed, the API key can be used in your application"

\* Faulty variant of FindRetryAdvice: the last non-empty advice is taken
FindRetryAdvice_Last(errors) ==
    LET filled == {n \in 1..Len(errors) : errors[n].retry_advice # ""}
    IN  IF filled = {} THEN Null
        ELSE Some(errors[CHOOSE n \in filled : \A m \in filled : m <= n].retry_advice)

\* errors.map(e => e.retry_advice).find(advice => advice.length > 0)
RECURSIVE FindRetryAdvice(_)
FindRetryAdvice(errors) ==
    IF errors = <<>> THEN Null
    ELSE IF Head(errors).retry_advice # "" THEN Some(Head(errors).retry_advice)
    ELSE FindRetryAdvice(Tail(errors))

\* Faulty variant of pushedActions: the "ready to use" message closes every list
pushedActions_PassedAlways(availability, models, quotaStatus, errors) ==
    LET a1 == IF availability = "available" /\ Len(models) > 0
              THEN <<ModelSuggestion(models[1])>> ELSE <<>>
        a2 == IF quotaStatus # "available" THEN a1 \o <<QuotaSuggestion>> ELSE a1
        retryAdvice == FindRetryAdvice(errors)
        a3 == IF ~IsNull(retryAdvice) THEN a2 \o <<Val(retryAdvice)>> ELSE a2
    IN  a3 \o <<PassedSuggestion>>

\* The actions array once every push is done
pushedActions(availability, models, quotaStatus, errors) ==
    LET a1 == IF availability = "available" /\ Len(models) > 0
              THEN <<ModelSuggestion(models[1])>> ELSE <<>>
        a2 == IF quotaStatus # "available" THEN a1 \o <<QuotaSuggestion>> ELSE a1
        retryAdvice == FindRetryAdvice(errors)
        a3 == IF ~IsNull(retryAdvice) THEN a2 \o <<Val(retryAdvice)>> ELSE a2
    IN  IF Len(a3) = 0 THEN <<PassedSuggestion>> ELSE a3

\* Faulty variant of Dedupe: repeated entries are kept
Dedupe_KeepAll(xs) == xs

\* Array.from(new Set(xs)): each value once, at the place of its first occurrence
RECURSIVE Dedupe(_)
Dedupe(xs) ==
    IF xs = <<>> THEN <<>>
    ELSE LET front == Dedupe(SubSeq(xs, 1, Len(xs) - 1))
             last == xs[Len(xs)]
         IN  IF \E i \in 1..Len(front) : front[i] = last THEN front
             ELSE Append(front, last)

MaxActions == 5

buildNextActions(availability, models, quotaStatus, errors) ==
    Slice0(Dedupe(pushedActions(availability, models, quotaStatus, errors)), MaxActions)

\* CheckError values whose retry advice is empty, fresh, or equal to one of the
\* suggestions the function itself pushes
ActionErrors ==
    {buildCheckError("PROVIDER_ERROR", "provider", "m", "http_400", ""),
     buildCheckError("NETWORK_ERROR", "network", "m", "network_error", "retry later"),
     buildCheckError("QUOTA_UNAVAILABLE", "quota", "m", "quota_unknown", QuotaSuggestion),
     buildCheckError("RATE_LIMITED", "provider", "m", "http_429", ModelSuggestion("m1")),
     buildCheckError("AUTH_FAILED", "auth", "m", "http_401", PassedSuggestion)}

InitActions ==
    /\ RunIdle
    /\ fn \in {[op |-> "buildNextActions",
                input |-> [availability |-> a, models |-> ms, quotaStatus |-> q, errors |-> es],
                done |-> FALSE,
                output |-> <<>>] :
               a \in Availabilities, ms \in ModelLists, q \in QuotaStatuses,
               es \in ErrorLists(ActionErrors)}

ApplyActions ==
    /\ fn.op = "buildNextActions"
    /\ ~fn.done
    /\ fn' = [fn EXCEPT !.done = TRUE,
                        !.output = buildNextActions(fn.input.availability, fn.input.models,
                                                    fn.input.quotaStatus, fn.input.errors)]
    /\ UNCHANGED runVars

SpecActions == InitActions /\ [][ApplyActions]_vars

\* The actions pushed for the input at hand, and where a string is first seen among them
InputPushed ==
    pushedActions(fn.input.availability, fn.input.models, fn.input.quotaStatus, fn.input.errors)

FirstSeen(x) == CHOOSE i \in 1..Len(InputPushed) :
                    InputPushed[i] = x /\ \A j \in 1..(i - 1) : InputPushed[j] # x

\* C19: for all inputs the list returned by buildNextActions has at most 5 entries,
\* contains no two equal strings, and keeps its entries in first-seen order.
C19_ActionsBoundedDistinctOrdered ==
    fn.done =>
        LET out == fn.output
        IN  /\ Len(out) <= 5
            /\ \A i, j \in 1..Len(out) : i # j => out[i] # out[j]
            /\ \A i \in 1..Len(out) : \E j \in 1..Len(InputPushed) : InputPushed[j] = out[i]
            /\ \A i, j \in 1..Len(out) : i < j => FirstSeen(out[i]) < FirstSeen(out[j])

\* The retry advice repeats the quota suggestion already pushed: it is kept once, after
\* the model suggestion
C19_Witness ==
    /\ fn.done
    /\ Len(InputPushed) = 3
    /\ InputPushed[2] = InputPushed[3]
    /\ fn.output = <<ModelSuggestion(fn.input.models[1]), QuotaSuggestion>>

-----------------------------------------------------------------------------
(* runProviderCheck never throws and always returns *)

\* The code an exception is converted to
ConvertedCode(name) == IF name = "AbortError" THEN "PROVIDER_TIMEOUT" ELSE "NETWORK_ERROR"

\* Every exception thrown by a call, and every 2xx body that cannot be parsed, ended the
\* candidate's check with the matching unavailable result
ExceptionsConverted ==
    \A n \in 1..Len(answers) :
        LET a == answers[n]
            k == a.candidate
        IN  /\ a.kind = "throw"
               => /\ k \in Tried
                  /\ SingleError(singleResults[k], ConvertedCode(a.name), "network")
            /\ (a.kind = "response" /\ ~IsNull(a.body))
               => /\ k \in Tried
                  /\ ~ParsesAsJson(a)
                     => SingleError(singleResults[k], "NETWORK_ERROR", "network")

\* The run is at one of its steps or has returned, and what it returns is a result
RunReturnsResult ==
    /\ pc \in {"idle", "loop", "await_catalog", "read_body", "probe", "await_strict", "done"}
    /\ pc = "done" <=> ~IsNull(returned)
    /\ pc = "done" =>
        /\ Val(returned).availability \in {"available", "unavailable"}
        /\ Val(returned).mode = (IF params.strictMode THEN "strict_target" ELSE "catalog")
        /\ Val(returned).availability = "unavailable" => Val(returned).errors # <<>>

\* A run that has not returned always has a next step: it is never left without one by
\* an exception that nothing catches
NeverStuck == pc # "done" => ENABLED Next

\* The largest number of strict probes an adapter has
ProbeCap ==
    CHOOSE n \in {Len(ADAPTERS[p].strictProbes) : p \in Providers} :
        \A p \in Providers : Len(ADAPTERS[p].strictProbes) <= n

\* Steps left within the check of one candidate, at most
StageRank ==
    LET untilDeadline == IF elapsed THEN 0 ELSE 1
    IN  CASE pc = "loop" -> 8 * ProbeCap + 16
          [] pc = "probe" -> 8 * (ProbeCap + 1 - pi) + 4
          [] pc = "await_strict" -> 8 * (ProbeCap + 1 - pi) + untilDeadline
          [] pc = "await_catalog" -> 6 + untilDeadline
          [] pc = "read_body" -> 4 + untilDeadline
          [] OTHER -> 0

\* Steps left in the run, at most: a natural number that every step makes smaller
Remaining ==
    LET perCandidate == 8 * ProbeCap + 20
    IN  IF pc = "idle" THEN (Cardinality(Providers) + 1) * perCandidate
        ELSE IF pc = "done" THEN 0
        ELSE (Len(candidates) + 1 - ci) * perCandidate + StageRank

\* C20: runProviderCheck never throws and always terminates with a ProviderRunResult,
\* whatever the transport does (any status, abort, any other exception, a 2xx body that
\* cannot be parsed): every exception is converted into an unavailable result with
\* PROVIDER_TIMEOUT (abort) or NETWORK_ERROR (anything else).
C20_NeverThrowsAlwaysReturns ==
    /\ [](ExceptionsConverted /\ RunReturnsResult /\ NeverStuck /\ Remaining \in Nat)
    /\ [][Remaining' < Remaining]_vars

\* A catalog GET answered 2xx with a body that is not JSON, after a candidate whose call
\* threw nothing: the run returned NETWORK_ERROR
C20_Witness ==
    /\ pc = "done"
    /\ Len(answers) = 2
    /\ answers[2].kind = "response"
    /\ answers[2].status = 200
    /\ ~IsNull(answers[2].body)
    /\ ~ParsesAsJson(answers[2])
    /\ SingleError(Val(returned), "NETWORK_ERROR", "network")

-----------------------------------------------------------------------------
(* Properties of the calls of a run *)

\* The endpoint the code is to call for the j-th call of candidate k
ExpectedUrl(k, j) ==
    IF params.strictMode THEN ADAPTERS[candidates[k]].strictProbes[j].endpoint
    ELSE ADAPTERS[candidates[k]].modelsEndpoint

\* At most the last call issued is pending, and all calls before it were answered
OneCallPending ==
    /\ Cardinality(inflight) <= 1
    /\ inflight \subseteq {calls[n] : n \in {Len(calls)} \cap DOMAIN calls}
    /\ Len(answers) = Len(calls) - Cardinality(inflight)

\* Calls follow the candidate list, and within a candidate the probe registry
CallsInOrder ==
    /\ \A m, n \in 1..Len(calls) : m < n => calls[m].candidate <= calls[n].candidate
    /\ \A k \in 1..Len(candidates) :
        /\ Len(CallsOf(k)) <= (IF params.strictMode THEN Len(RegistryProbes(k)) ELSE 1)
        /\ \A j \in 1..Len(CallsOf(k)) : CallsOf(k)[j].url = ExpectedUrl(k, j)

\* C21: within one run at most one call is in flight at any time: a call is issued only
\* after the previous one has completed with a response or an exception, and calls are
\* issued in candidate-list order, then probe-registry order.
C21_OneCallAtATime ==
    /\ [](pc # "idle" => (OneCallPending /\ CallsInOrder))
    /\ [][calls' # calls => (inflight = {} /\ Len(answers) = Len(calls))]_vars

\* A strict run over two candidates: the fourth call is pending, three were answered
C21_Witness ==
    /\ pc = "await_strict"
    /\ Len(candidates) = 2
    /\ Len(calls) = 4
    /\ inflight = {calls[4]}
    /\ Len(answers) = 3

\* C22: no automatic retry: each endpoint URL is called at most once in a run; a catalog
\* run issues at most one call per candidate (at most 2 in auto mode), a strict run at
\* most one call per probe of each candidate (at most 4 in auto mode, at most 1 for
\* anthropic).
C22_NoRetry ==
    pc # "idle" =>
        /\ \A m, n \in 1..Len(calls) : m # n => calls[m].url # calls[n].url
        /\ \A k \in 1..Len(candidates) :
            /\ ~params.strictMode => Len(CallsOf(k)) <= 1
            /\ params.strictMode => Len(CallsOf(k)) <= Len(RegistryProbes(k))
            /\ candidates[k] = "anthropic" => Len(CallsOf(k)) <= 1
        /\ (params.provider = "auto" /\ ~params.strictMode) => Len(calls) <= 2
        /\ (params.provider = "auto" /\ params.strictMode) => Len(calls) <= 4

\* A strict run in auto mode that issued four calls, every probe of both candidates
C22_Witness ==
    /\ pc = "done"
    /\ params.provider = "auto"
    /\ params.strictMode
    /\ Len(calls) = 4
    /\ HasErrorCode(Val(returned), "TARGET_MODEL_UNAVAILABLE")

\* C23 as stated: every call, from issuing the request until the response is consumed
\* (the body of a 2xx catalog response included), is bounded by the deadline: a call
\* still pending once the deadline has elapsed has been aborted, and a call that the
\* deadline overtook ends as PROVIDER_TIMEOUT.
C23_CallBoundedByDeadline ==
    /\ (inflight # {} /\ elapsed) => timer = "fired"
    /\ \A n \in 1..Len(answers) :
        answers[n].late
        => /\ answers[n].kind = "throw"
           /\ answers[n].name = "AbortError"
           /\ answers[n].candidate \in Tried
           /\ SingleError(singleResults[answers[n].candidate], "PROVIDER_TIMEOUT", "network")

-----------------------------------------------------------------------------
(* Two runs of runProviderCheck, one after the other, with identical arguments and fed
   the same transport behaviour call by call *)

\* Catalog bodies of the two-run specification
TwiceBodies ==
    {[json |-> FALSE],
     [json |-> TRUE, value |-> JObj([error |-> JStr("x")])],
     [json |-> TRUE, value |-> JObj([data |-> JArr(<<JObj([id |-> JStr("m1")])>>)])]}

\* Status codes and response headers of the two-run specification: one of each kind the
\* code tells apart
TwiceStatuses == {200, 401, 404, 429, 500, 418}

TwiceHeaders == {{}, {"content-type", "x-ratelimit-limit-requests"}}

\* What the transport may do to a call in the two-run specification
TwiceTransport(a) ==
    /\ a.kind = "response" => a.status \in TwiceStatuses
    /\ IF IsNull(a.body) THEN TRUE ELSE Val(a.body) \in TwiceBodies
    /\ IF IsNull(a.headers) THEN TRUE ELSE Val(a.headers) \in TwiceHeaders

\* runProviderCheck is called again once the first run has returned: what the first run
\* was given, what the transport did and what came of it are kept in fn; the locals of
\* the call are fresh
RunAgain ==
    /\ pc = "done"
    /\ IsNull(fn)
    /\ fn' = Some([op |-> "runProviderCheck", input |-> params, transport |-> answers,
                   calls |-> calls, output |-> returned])
    /\ pc' = "idle"
    /\ params' = Null
    /\ candidates' = <<>>
    /\ ci' = 1
    /\ firstFailure' = Null
    /\ authFailure' = Null
    /\ strictUnavailableFailure' = Null
    /\ pi' = 1
    /\ lastUnavailableStatus' = Null
    /\ returned' = Null
    /\ calls' = <<>>
    /\ inflight' = {}
    /\ answers' = <<>>
    /\ singleResults' = <<>>
    /\ timer' = "unset"
    /\ elapsed' = FALSE
    /\ response' = Null

\* The second run is given the arguments of the first, and the transport does to its
\* n-th call what it did to the n-th call of the first run
Replays ==
    /\ (pc = "idle" /\ ~IsNull(fn)) => params' = Val(fn).input
    /\ answers' # answers =>
        LET n == Len(answers')
        IN  /\ TwiceTransport(answers'[n])
            /\ IF IsNull(fn) THEN TRUE
               ELSE IF n > Len(Val(fn).transport) THEN FALSE
               ELSE answers'[n] = Val(fn).transport[n]

NextTwice ==
    \/ Next /\ Replays
    \/ RunAgain

SpecTwice == Init /\ [][NextTwice]_vars

SecondRun == ~IsNull(fn) /\ pc # "idle"

-----------------------------------------------------------------------------
(* checkSimpleRateLimit of src/src/lib/security/rate-limit.ts: the buckets map, the
   clock and the log of the calls allowed so far are kept in fn *)

WINDOW_MS == 60000

MAX_REQUESTS_PER_WINDOW == 20

\* Faulty variant of checkSimpleRateLimit: a refused call is counted too
checkSimpleRateLimit_CountsRefusals(buckets, now, identity) ==
    LET bucket == buckets[identity]
        fresh == IF IsNull(bucket) THEN TRUE ELSE Val(bucket).resetAt <= now
    IN  IF fresh
        THEN [buckets |-> [buckets EXCEPT ![identity] =
                              Some([count |-> 1, resetAt |-> now + WINDOW_MS])],
              result |-> [allowed |-> TRUE, remaining |-> MAX_REQUESTS_PER_WINDOW - 1,
                          resetAt |-> now + WINDOW_MS]]
        ELSE IF Val(bucket).count >= MAX_REQUESTS_PER_WINDOW
        THEN [buckets |-> [buckets EXCEPT ![identity] =
                              Some([Val(bucket) EXCEPT !.count = @ + 1])],
              result |-> [allowed |-> FALSE, remaining |-> 0,
                          resetAt |-> Val(bucket).resetAt]]
        ELSE [buckets |-> [buckets EXCEPT ![identity] =
                              Some([Val(bucket) EXCEPT !.count = @ + 1])],
              result |-> [allowed |-> TRUE,
                          remaining |-> MAX_REQUESTS_PER_WINDOW - (Val(bucket).count + 1),
                          resetAt |-> Val(bucket).resetAt]]

\* Faulty variant of checkSimpleRateLimit: the window ends only after resetAt has passed
checkSimpleRateLimit_LateReset(buckets, now, identity) ==
    LET bucket == buckets[identity]
        fresh == IF IsNull(bucket) THEN TRUE ELSE Val(bucket).resetAt < now
    IN  IF fresh
        THEN [buckets |-> [buckets EXCEPT ![identity] =
                              Some([count |-> 1, resetAt |-> now + WINDOW_MS])],
              result |-> [allowed |-> TRUE, remaining |-> MAX_REQUESTS_PER_WINDOW - 1,
                          resetAt |-> now + WINDOW_MS]]
        ELSE IF Val(bucket).count >= MAX_REQUESTS_PER_WINDOW
        THEN [buckets |-> buckets,
              result |-> [allowed |-> FALSE, remaining |-> 0,
                          resetAt |-> Val(bucket).resetAt]]
        ELSE [buckets |-> [buckets EXCEPT ![identity] =
                              Some([Val(bucket) EXCEPT !.count = @ + 1])],
              result |-> [allowed |-> TRUE,
                          remaining |-> MAX_REQUESTS_PER_WINDOW - (Val(bucket).count + 1),
                          resetAt |-> Val(bucket).resetAt]]

\* Faulty variant of checkSimpleRateLimit: the full bucket lets one more call through
checkSimpleRateLimit_OffByOne(buckets, now, identity) ==
    LET bucket == buckets[identity]
        fresh == IF IsNull(bucket) THEN TRUE ELSE Val(bucket).resetAt <= now
    IN  IF fresh
        THEN [buckets |-> [buckets EXCEPT ![identity] =
                              Some([count |-> 1, resetAt |-> now + WINDOW_MS])],
              result |-> [allowed |-> TRUE, remaining |-> MAX_REQUESTS_PER_WINDOW - 1,
                          resetAt |-> now + WINDOW_MS]]
        ELSE IF Val(bucket).count > MAX_REQUESTS_PER_WINDOW
        THEN [buckets |-> buckets,
              result |-> [allowed |-> FALSE, remaining |-> 0,
                          resetAt |-> Val(bucket).resetAt]]
        ELSE [buckets |-> [buckets EXCEPT ![identity] =
                              Some([Val(bucket) EXCEPT !.count = @ + 1])],
              result |-> [allowed |-> TRUE,
                          remaining |-> MAX_REQUESTS_PER_WINDOW - (Val(bucket).count + 1),
                          resetAt |-> Val(bucket).resetAt]]

\* The buckets map after the call, and the value returned
checkSimpleRateLimit(buckets, now, identity) ==
    LET bucket == buckets[identity]
        fresh == IF IsNull(bucket) THEN TRUE ELSE Val(bucket).resetAt <= now
    IN  IF fresh
        THEN [buckets |-> [buckets EXCEPT ![identity] =
                              Some([count |-> 1, resetAt |-> now + WINDOW_MS])],
              result |-> [allowed |-> TRUE, remaining |-> MAX_REQUESTS_PER_WINDOW - 1,
                          resetAt |-> now + WINDOW_MS]]
        ELSE IF Val(bucket).count >= MAX_REQUESTS_PER_WINDOW
        THEN [buckets |-> buckets,
              result |-> [allowed |-> FALSE, remaining |-> 0,
                          resetAt |-> Val(bucket).resetAt]]
        ELSE [buckets |-> [buckets EXCEPT ![identity] =
                              Some([Val(bucket) EXCEPT !.count = @ + 1])],
              result |-> [allowed |-> TRUE,
                          remaining |-> MAX_REQUESTS_PER_WINDOW - (Val(bucket).count + 1),
                          resetAt |-> Val(bucket).resetAt]]

Identities == {"10.0.0.1", "unknown"}

\* Advances of Date.now() between two calls: half a window, a whole window
ClockSteps == {WINDOW_MS \div 2, WINDOW_MS}

\* Calls made by the first identity, by the other one, and advances of the clock, at most
MaxChecks == 22

MaxOtherChecks == 1

MaxTicks == 2

CheckCap(identity) == IF identity = "unknown" THEN MaxOtherChecks ELSE MaxChecks

InitRate ==
    /\ RunIdle
    /\ fn = [op |-> "checkSimpleRateLimit",
             now |-> 0,
             buckets |-> [id \in Identities |-> Null],
             log |-> [id \in Identities |-> <<>>],
             checks |-> [id \in Identities |-> 0],
             ticks |-> 0,
             output |-> Null]

\* One call of checkSimpleRateLimit(identity) at the current clock value
CheckRate ==
    /\ fn.op = "checkSimpleRateLimit"
    /\ \E identity \in {id \in Identities : fn.checks[id] < CheckCap(id)} :
        LET r == checkSimpleRateLimit(fn.buckets, fn.now, identity)
        IN  fn' = [fn EXCEPT !.buckets = r.buckets,
                             !.log[identity] = IF r.result.allowed THEN Append(@, fn.now)
                                               ELSE @,
                             !.checks[identity] = @ + 1,
                             !.output = Some([identity |-> identity, at |-> fn.now,
                                              result |-> r.result])]
    /\ UNCHANGED runVars

\* Date.now() advances
ClockAdvances ==
    /\ fn.op = "checkSimpleRateLimit"
    /\ fn.ticks < MaxTicks
    /\ \E d \in ClockSteps : fn' = [fn EXCEPT !.now = @ + d, !.ticks = @ + 1]
    /\ UNCHANGED runVars

NextRate == CheckRate \/ ClockAdvances

SpecRate == InitRate /\ [][NextRate]_vars

\* The calls of an identity allowed at a time in the period (from, to]
AllowedWithin(id, from, to) ==
    Cardinality({n \in 1..Len(fn.log[id]) : fn.log[id][n] > from /\ fn.log[id][n] <= to})

\* C25 as stated: for each identity, in any period of 60 seconds at most 20 calls return
\* allowed = true.
C25_AtMost20InAnyPeriod ==
    \A id \in Identities :
        \A n \in 1..Len(fn.log[id]) :
            AllowedWithin(id, fn.log[id][n] - 60000, fn.log[id][n]) <= 20

\* C25 amended: for each identity, in each window of the limiter (the 60 seconds from the
\* call that opened the bucket to its resetAt) at most 20 calls return allowed = true:
\* the calls allowed since the bucket was opened are as many as the bucket counts, never
\* more than 20, and a call is refused exactly when the bucket already counts 20.
C25_AtMost20PerWindow ==
    /\ \A id \in Identities :
        ~IsNull(fn.buckets[id]) =>
            LET bucket == Val(fn.buckets[id])
            IN  /\ bucket.count <= 20
                /\ AllowedWithin(id, bucket.resetAt - 60000 - 1, bucket.resetAt - 1)
                   = bucket.count
                /\ \A n \in 1..Len(fn.log[id]) : fn.log[id][n] < bucket.resetAt
    /\ ~IsNull(fn.output) =>
        LET id == Val(fn.output).identity
            result == Val(fn.output).result
        IN  /\ ~result.allowed =>
                /\ Val(fn.buckets[id]).count = 20
                /\ Val(fn.output).at < result.resetAt
            /\ result.remaining = (IF result.allowed THEN 20 - Val(fn.buckets[id]).count
                                   ELSE 0)

\* An identity was allowed 20 calls in one window and refused the next call, while the
\* other identity was still allowed
C25_Witness ==
    /\ ~IsNull(fn.output)
    /\ ~Val(fn.output).result.allowed
    /\ Len(fn.log[Val(fn.output).identity]) = 20
    /\ \E id \in Identities : Len(fn.log[id]) = 1

\* ---------------------------------------------------------------------------
\* The POST handler of /api/check

\* x-forwarded-for: absent, or its comma-separated segments
ForwardedFor == {Null, Some(<<"10.0.0.1">>), Some(<<" 10.0.0.1 ", "10.0.0.9">>), Some(<<" ">>)}

\* String.prototype.trim on the segments used
TrimSegment(segment) ==
    IF segment = " 10.0.0.1 " THEN "10.0.0.1" ELSE IF segment = " " THEN "" ELSE segment

\* request.headers.get("x-forwarded-for") ?? "unknown", then split(",")[0]?.trim() || "unknown"
clientIdentity(header) ==
    LET first == IF IsNull(header) THEN "unknown" ELSE TrimSegment(Val(header)[1])
    IN  IF first = "" THEN "unknown" ELSE first

\* Request bodies: not JSON (Null), or an object with a provider and an api_key of a length
PostBodies ==
    {Null,
     Some([provider |-> "auto", keyLen |-> 20]),
     Some([provider |-> "openai", keyLen |-> 7]),
     Some([provider |-> "gemini", keyLen |-> 20])}

\* Faulty variant of checkRequestSchemaAccepts: every JSON body passes
checkRequestSchemaAccepts_Always(json) == json = json

\* checkRequestSchema.parse(json) does not throw
checkRequestSchemaAccepts(json) ==
    /\ json.provider \in {"auto"} \cup Providers
    /\ json.keyLen >= 8
    /\ json.keyLen <= 256

\* Outcomes of await runCheckOrchestration(...): a result, an Error, a ZodError of its
\* final normalizedCheckResultSchema.parse
CoreOutcomes == {"returns", "throws", "throws_zod"}

\* Requests being handled at the same time (between two awaits), at most
MaxInFlight == 2

Slots == 1..MaxInFlight

\* Requests arriving, and advances of the clock while they are handled, at most
MaxPosts == 3

MaxPostTicks == 1

\* The bucket of an identity when the first request arrives: none yet, or the one left by
\* 19 or 20 earlier requests of the current window
EarlierBuckets ==
    {Null} \cup {Some([count |-> n, resetAt |-> WINDOW_MS]) :
                    n \in {MAX_REQUESTS_PER_WINDOW - 1, MAX_REQUESTS_PER_WINDOW}}

InitPost ==
    /\ RunIdle
    /\ \E earlier \in [Identities -> EarlierBuckets] :
        fn = [op |-> "POST",
             now |-> 0,
             buckets |-> earlier,
             posts |-> 0,
             ticks |-> 0,
             pending |-> [slot \in Slots |-> Null],
             output |-> Null]

\* NextResponse.json(..., {status}) of a request, with what the handler did for it
PostResponse(request, did, status, code) ==
    Some([identity |-> request.identity, allowed |-> request.allowed, body |-> request.body,
          events |-> request.events \o did, status |-> status, error_code |-> code])

\* route.ts 13-39: the synchronous head of the handler, up to the first await
PostArrives ==
    /\ fn.op = "POST"
    /\ \E slot \in Slots, header \in ForwardedFor, body \in PostBodies :
        LET identity == clientIdentity(header)
            r == checkSimpleRateLimit(fn.buckets, fn.now, identity)
            request == [identity |-> identity, allowed |-> r.result.allowed, body |-> body,
                        stage |-> "await_json", events |-> <<"limit">>]
        IN  /\ IsNull(fn.pending[slot])
            /\ \A other \in Slots : other < slot => ~IsNull(fn.pending[other])
            /\ fn.posts < MaxPosts
            /\ IF ~r.result.allowed
               THEN fn' = [fn EXCEPT !.buckets = r.buckets,
                                     !.posts = @ + 1,
                                     !.output = PostResponse(request, <<>>, 429, "RATE_LIMITED")]
               ELSE fn' = [fn EXCEPT !.buckets = r.buckets,
                                     !.posts = @ + 1,
                                     !.pending[slot] = Some(request)]
    /\ UNCHANGED runVars

\* route.ts 42-43 and the catch: await request.json() settles, then
\* checkRequestSchema.parse; the call of runCheckOrchestration starts
PostJsonSettles ==
    /\ fn.op = "POST"
    /\ \E slot \in Slots :
        /\ ~IsNull(fn.pending[slot])
        /\ Val(fn.pending[slot]).stage = "await_json"
        /\ LET request == Val(fn.pending[slot])
           IN  IF IsNull(request.body)
               THEN fn' = [fn EXCEPT !.pending[slot] = Null,
                                     !.output = PostResponse(request, <<"json">>, 500,
                                                             "INTERNAL_ERROR")]
               ELSE IF ~checkRequestSchemaAccepts(Val(request.body))
               THEN fn' = [fn EXCEPT !.pending[slot] = Null,
                                     !.output = PostResponse(request, <<"json", "schema">>, 400,
                                                             "INVALID_INPUT")]
               ELSE fn' = [fn EXCEPT !.pending[slot] =
                               Some([request EXCEPT !.stage = "await_core",
                                                    !.events = @ \o <<"json", "schema", "core">>])]
    /\ UNCHANGED runVars

\* route.ts 44-63 and the catch: await runCheckOrchestration(...) settles
PostCoreSettles ==
    /\ fn.op = "POST"
    /\ \E slot \in Slots, outcome \in CoreOutcomes :
        /\ ~IsNull(fn.pending[slot])
        /\ Val(fn.pending[slot]).stage = "await_core"
        /\ LET request == Val(fn.pending[slot])
           IN  fn' = [fn EXCEPT !.pending[slot] = Null,
                                !.output =
                                    IF outcome = "returns"
                                    THEN PostResponse(request, <<>>, 200, "")
                                    ELSE IF outcome = "throws_zod"
                                    THEN PostResponse(request, <<>>, 400, "INVALID_INPUT")
                                    ELSE PostResponse(request, <<>>, 500, "INTERNAL_ERROR")]
    /\ UNCHANGED runVars

\* Date.now() is a whole window later
PostClockAdvances ==
    /\ fn.op = "POST"
    /\ fn.ticks < MaxPostTicks
    /\ fn' = [fn EXCEPT !.now = @ + WINDOW_MS, !.ticks = @ + 1]
    /\ UNCHANGED runVars

NextPost == PostArrives \/ PostJsonSettles \/ PostCoreSettles \/ PostClockAdvances

SpecPost == InitPost /\ [][NextPost]_vars

\* The body is JSON and has a known provider and a key of 8 to 256 characters
BodyValid(body) ==
    /\ ~IsNull(body)
    /\ Val(body).provider \in {"auto", "openai", "anthropic", "openrouter"}
    /\ Val(body).keyLen \in 8..256

Has(events, event) == \E n \in 1..Len(events) : events[n] = event

\* C26: the POST handler consults the rate limiter first; a refused request is answered
\* 429 RATE_LIMITED without reading the body and without the core; an accepted request
\* whose body fails the schema is answered 400 INVALID_INPUT without the core; the core is
\* invoked only for accepted requests with a valid body.
C26_LimiterBeforeBodyBeforeCore ==
    /\ \A slot \in Slots :
        ~IsNull(fn.pending[slot]) =>
            LET request == Val(fn.pending[slot])
            IN  /\ request.allowed
                /\ request.events[1] = "limit"
                /\ Has(request.events, "core") => BodyValid(request.body)
    /\ ~IsNull(fn.output) =>
        LET answer == Val(fn.output)
        IN  /\ answer.events[1] = "limit"
            /\ ~answer.allowed =>
                /\ answer.status = 429
                /\ answer.error_code = "RATE_LIMITED"
                /\ answer.events = <<"limit">>
            /\ answer.status = 429 => ~answer.allowed
            /\ (answer.allowed /\ ~IsNull(answer.body) /\ ~BodyValid(answer.body)) =>
                /\ answer.status = 400
                /\ answer.error_code = "INVALID_INPUT"
                /\ ~Has(answer.events, "core")
            /\ Has(answer.events, "core") =>
                /\ answer.allowed
                /\ BodyValid(answer.body)
                /\ answer.events = <<"limit", "json", "schema", "core">>

\* The 21st request of an identity in one window was refused with 429 while an accepted
\* request is in the core
C26_Witness ==
    /\ ~IsNull(fn.output)
    /\ Val(fn.output).status = 429
    /\ Val(fn.buckets[Val(fn.output).identity]).count = 20
    /\ \E slot \in Slots :
        /\ ~IsNull(fn.pending[slot])
        /\ Val(fn.pending[slot]).stage = "await_core"

\* ---------------------------------------------------------------------------
\* The page: the key field, the local cache of the key, submit and clear

CACHE_TTL_MS == 120000

\* What the user can type in the key field
TypedKeys == {"", "sk-a", "sk-b"}

\* Advances of Date.now() between two events of the page
PageClockSteps == {1000, CACHE_TTL_MS}

\* Advances of the clock and reloads of the page, at most
MaxPageTicks == 2

MaxLoads == 2

\* Math.ceil(ms / 1000) for ms > 0
CeilSeconds(ms) == (ms + 999) \div 1000

\* useState initial values of Home, with the browser's localStorage and clock
PageState(storage, now, ticks, loads, entered) ==
    [op |-> "page",
     apiKey |-> "",
     allowLocalCache |-> TRUE,
     requestState |-> "idle",
     cacheCountdown |-> Null,
     storage |-> storage,
     now |-> now,
     ticks |-> ticks,
     loads |-> loads,
     entered |-> entered]

InitPage ==
    /\ RunIdle
    /\ fn = PageState(Null, 0, 0, 0, {})

\* The page is loaded again: fresh component state, then the mount effect (part_005 72-89)
PageLoads ==
    /\ fn.op = "page"
    /\ fn.loads < MaxLoads
    /\ LET fresh == PageState(fn.storage, fn.now, fn.ticks, fn.loads + 1, fn.entered)
       IN  IF IsNull(fn.storage)
           THEN fn' = fresh
           ELSE IF Val(fn.storage).expiresAt <= fn.now
           THEN fn' = [fresh EXCEPT !.storage = Null]
           ELSE fn' = [fresh EXCEPT !.apiKey = Val(fn.storage).value,
                                    !.cacheCountdown =
                                        Some(CeilSeconds(Val(fn.storage).expiresAt - fn.now))]
    /\ UNCHANGED runVars

\* onChange of the key field
EditKey ==
    /\ fn.op = "page"
    /\ \E key \in TypedKeys :
        /\ key # fn.apiKey
        /\ fn' = [fn EXCEPT !.apiKey = key,
                            !.entered = IF key = "" THEN @ ELSE @ \cup {key}]
    /\ UNCHANGED runVars

\* onChange of the checkbox "allow local cache for 2 minutes"
ToggleLocalCache ==
    /\ fn.op = "page"
    /\ fn' = [fn EXCEPT !.allowLocalCache = ~@]
    /\ UNCHANGED runVars

\* handleSubmit up to its await (part_005 141-163); the button is disabled while
\* checking and for an empty key
SubmitKey ==
    /\ fn.op = "page"
    /\ fn.requestState # "checking"
    /\ fn.apiKey # ""
    /\ IF fn.allowLocalCache
       THEN fn' = [fn EXCEPT !.requestState = "checking",
                             !.storage = Some([value |-> fn.apiKey,
                                               expiresAt |-> fn.now + CACHE_TTL_MS]),
                             !.cacheCountdown = Some(CeilSeconds(CACHE_TTL_MS))]
       ELSE fn' = [fn EXCEPT !.requestState = "checking",
                             !.storage = Null,
                             !.cacheCountdown = Null]
    /\ UNCHANGED runVars

\* handleSubmit after its await: the answer of /api/check, or a failed request
SubmitSettles ==
    /\ fn.op = "page"
    /\ fn.requestState = "checking"
    /\ \E outcome \in {"done", "failed"} : fn' = [fn EXCEPT !.requestState = outcome]
    /\ UNCHANGED runVars

\* clearCacheAndInput
ClearKey ==
    /\ fn.op = "page"
    /\ fn' = [fn EXCEPT !.apiKey = "", !.cacheCountdown = Null, !.storage = Null]
    /\ UNCHANGED runVars

\* The callback of the one-second interval that runs while cacheCountdown is set
CountdownTick ==
    /\ fn.op = "page"
    /\ ~IsNull(fn.cacheCountdown)
    /\ IF Val(fn.cacheCountdown) <= 1
       THEN fn' = [fn EXCEPT !.cacheCountdown = Null, !.storage = Null]
       ELSE fn' = [fn EXCEPT !.cacheCountdown = Some(Val(@) - 1)]
    /\ UNCHANGED runVars

\* Date.now() advances
PageClockAdvances ==
    /\ fn.op = "page"
    /\ fn.ticks < MaxPageTicks
    /\ \E d \in PageClockSteps : fn' = [fn EXCEPT !.now = @ + d, !.ticks = @ + 1]
    /\ UNCHANGED runVars

NextPage ==
    \/ PageLoads
    \/ EditKey
    \/ ToggleLocalCache
    \/ SubmitKey
    \/ SubmitSettles
    \/ ClearKey
    \/ CountdownTick
    \/ PageClockAdvances

SpecPage == InitPage /\ [][NextPage]_vars

\* C27: in every state of the page, after any loads, edits, submits and clears, the
\* browser's storage holds no copy of a key entered by the user.
C27_NoPlaintextKeyInStorage ==
    IsNull(fn.storage) \/ Val(fn.storage).value \notin fn.entered

\* ---------------------------------------------------------------------------
\* A provider named by the caller

\* The endpoints of a provider's adapter
AdapterEndpoints(provider) ==
    {ADAPTERS[provider].modelsEndpoint}
    \cup {ADAPTERS[provider].strictProbes[j].endpoint :
            j \in 1..Len(ADAPTERS[provider].strictProbes)}

\* C28: when the caller names a provider, the candidate list is that one provider
\* whatever the key's prefix: every call goes to an endpoint of its adapter with its
\* headers, the result's provider is the named one, and no other provider is tried after
\* a failure.
C28_NamedProviderOnly ==
    (pc # "idle" /\ params.provider # "auto") =>
        /\ candidates = <<params.provider>>
        /\ \A n \in 1..Len(calls) :
            /\ calls[n].candidate = 1
            /\ calls[n].url \in AdapterEndpoints(params.provider)
            /\ \A other \in Providers \ {params.provider} :
                calls[n].url \notin AdapterEndpoints(other)
            /\ buildHeaders(params.provider, params.apiKey) \subseteq calls[n].headers
        /\ Len(singleResults) <= 1
        /\ \A n \in 1..Len(singleResults) : singleResults[n].provider = params.provider
        /\ ~IsNull(returned) => Val(returned).provider = params.provider

\* openai was named with a key that has the anthropic prefix; its only call failed
\* and the run returned unavailable for openai
C28_Witness ==
    /\ pc = "done"
    /\ params.provider = "openai"
    /\ detectProviderCandidates(params.apiKey) = <<"anthropic">>
    /\ Len(calls) >= 1
    /\ ~IsNull(returned)
    /\ Val(returned).availability = "unavailable"
    /\ Val(returned).provider = "openai"

\* ---------------------------------------------------------------------------
\* The two verification strategies

\* Faulty variant of OrchestrationParams: the target model is passed on in either mode
OrchestrationParams_PassTarget(input) ==
    [provider |-> input.provider,
     apiKey |-> input.api_key,
     strictMode |-> input.strict_mode,
     targetModel |-> input.target_model]

\* The argument runCheckOrchestration gives runProviderCheck:
\* targetModel: input.strict_mode ? (input.target_model ?? null) : null
OrchestrationParams(input) ==
    [provider |-> input.provider,
     apiKey |-> input.api_key,
     strictMode |-> input.strict_mode,
     targetModel |-> IF input.strict_mode THEN input.target_model ELSE Null]

\* The run was started by runCheckOrchestration
FromOrchestration ==
    params = OrchestrationParams([provider |-> params.provider, api_key |-> params.apiKey,
                                  strict_mode |-> params.strictMode,
                                  target_model |-> params.targetModel])

ModelsEndpoints == {ADAPTERS[p].modelsEndpoint : p \in Providers}

ProbeEndpoints ==
    UNION {{ADAPTERS[p].strictProbes[j].endpoint : j \in 1..Len(ADAPTERS[p].strictProbes)} :
             p \in Providers}

\* C29: the two strategies are never mixed within one run of runCheckOrchestration. With
\* strict mode off every call is a GET to a catalog endpoint and every result has mode
\* catalog and target_model null, whatever target model was supplied; with strict mode
\* on every call is a POST to a strict-probe endpoint, never a catalog GET.
C29_StrategiesNeverMixed ==
    pc # "idle" =>
        /\ \A target \in TargetModels :
            IsNull(OrchestrationParams([provider |-> params.provider,
                                        api_key |-> params.apiKey,
                                        strict_mode |-> FALSE,
                                        target_model |-> target]).targetModel)
        /\ FromOrchestration =>
            IF ~params.strictMode
            THEN /\ \A n \in 1..Len(calls) :
                     /\ calls[n].method = "GET"
                     /\ calls[n].url \in ModelsEndpoints
                     /\ calls[n].url \notin ProbeEndpoints
                     /\ IsNull(calls[n].body)
                 /\ \A n \in 1..Len(singleResults) :
                     /\ singleResults[n].mode = "catalog"
                     /\ IsNull(singleResults[n].target_model)
                 /\ ~IsNull(returned) =>
                     /\ Val(returned).mode = "catalog"
                     /\ IsNull(Val(returned).target_model)
            ELSE /\ \A n \in 1..Len(calls) :
                     /\ calls[n].method = "POST"
                     /\ calls[n].url \in ProbeEndpoints
                     /\ calls[n].url \notin ModelsEndpoints
                 /\ \A n \in 1..Len(singleResults) : singleResults[n].mode = "strict_target"
                 /\ ~IsNull(returned) => Val(returned).mode = "strict_target"

\* A catalog run over two candidates has returned after two GET calls
C29_Witness ==
    /\ pc = "done"
    /\ FromOrchestration
    /\ ~params.strictMode
    /\ Len(calls) = 2
    /\ Val(returned).mode = "catalog"

\* ---------------------------------------------------------------------------
\* The composition of buildNextActions

\* The list the claim describes, for the input under check
RefComposed ==
    LET in == fn.input
        model == IF in.availability = "available" /\ in.models # <<>>
                 THEN <<ModelSuggestion(in.models[1])>> ELSE <<>>
        quota == IF in.quotaStatus # "available" THEN <<QuotaSuggestion>> ELSE <<>>
        filled == {n \in 1..Len(in.errors) : in.errors[n].retry_advice # ""}
        advice == IF filled = {} THEN <<>>
                  ELSE <<in.errors[CHOOSE n \in filled : \A m \in filled : n <= m].retry_advice>>
        three == model \o quota \o advice
    IN  IF three = <<>> THEN <<PassedSuggestion>> ELSE three

\* xs without the entries that repeat an earlier one
WithoutRepeats(xs) ==
    LET keep == {n \in 1..Len(xs) : \A m \in 1..(n - 1) : xs[m] # xs[n]}
    IN  [i \in 1..Cardinality(keep) |->
            xs[CHOOSE n \in keep : Cardinality({m \in keep : m <= n}) = i]]

\* C30: before deduplication the list is the first-model suggestion iff available with
\* models, then the quota suggestion iff quota status is not available, then the first
\* non-empty retry_advice of the errors in list order, and the "ready to use" message
\* iff none of the three qualified; the result is never empty and has at most 3 entries.
C30_ComposedInOrder ==
    fn.done =>
        /\ InputPushed = RefComposed
        /\ fn.output = WithoutRepeats(RefComposed)
        /\ Len(fn.output) \in 1..3

\* Available with models, quota unknown, and two errors with different advice: three
\* entries, the third is the advice of the first error
C30_Witness ==
    /\ fn.done
    /\ fn.input.availability = "available"
    /\ fn.input.models # <<>>
    /\ fn.input.quotaStatus = "unknown"
    /\ Len(fn.input.errors) = 2
    /\ fn.input.errors[1].retry_advice = "retry later"
    /\ fn.input.errors[2].retry_advice = PassedSuggestion
    /\ fn.output = <<ModelSuggestion(fn.input.models[1]), QuotaSuggestion, "retry later">>

\* ---------------------------------------------------------------------------
\* The buckets of checkSimpleRateLimit

\* This step is a call of checkSimpleRateLimit for identity id
CalledFor(id) ==
    /\ fn'.checks[id] = fn.checks[id] + 1
    /\ Val(fn'.output).identity = id

\* What the last call returned agrees with the bucket it left
LastCallReportsBucket ==
    ~IsNull(fn.output) =>
        LET id == Val(fn.output).identity
            result == Val(fn.output).result
            bucket == Val(fn.buckets[id])
        IN  /\ ~IsNull(fn.buckets[id])
            /\ result.resetAt = bucket.resetAt
            /\ result.remaining = (IF result.allowed THEN 20 - bucket.count ELSE 0)

\* A refused call leaves its bucket as it was, and no call touches another identity's
RefusalAndOthersUnchanged ==
    \A id \in Identities :
        CalledFor(id) =>
            /\ ~Val(fn'.output).result.allowed => fn'.buckets[id] = fn.buckets[id]
            /\ \A other \in Identities \ {id} : fn'.buckets[other] = fn.buckets[other]

\* C31: every stored bucket has 1 <= count <= 20; an allowed call reports
\* remaining = 20 - count and the bucket's resetAt; a refused call reports remaining = 0
\* and leaves count and resetAt unchanged; a call for one identity never changes the
\* bucket of another.
C31_BucketsWellFormed ==
    /\ [](\A id \in Identities :
            ~IsNull(fn.buckets[id]) => Val(fn.buckets[id]).count \in 1..20)
    /\ []LastCallReportsBucket
    /\ [][RefusalAndOthersUnchanged]_vars

\* One identity has a full bucket and was just refused while the other holds a bucket
\* of its own
C31_Witness ==
    /\ ~IsNull(fn.output)
    /\ ~Val(fn.output).result.allowed
    /\ Val(fn.buckets[Val(fn.output).identity]).count = 20
    /\ \E other \in Identities \ {Val(fn.output).identity} :
        /\ ~IsNull(fn.buckets[other])
        /\ Val(fn.buckets[other]).count = 1

\* A call at or after resetAt opens a new window; a call before it keeps resetAt
WindowResets ==
    \A id \in Identities :
        (CalledFor(id) /\ ~IsNull(fn.buckets[id])) =>
            IF fn.now >= Val(fn.buckets[id]).resetAt
            THEN /\ Val(fn'.output).result.allowed
                 /\ Val(fn'.buckets[id]) = [count |-> 1, resetAt |-> fn.now + 60000]
            ELSE Val(fn'.buckets[id]).resetAt = Val(fn.buckets[id]).resetAt

\* C32: a refused identity is allowed again by the first call made at now >= resetAt;
\* that call starts a new window with count = 1 and resetAt = now + 60000; calls made
\* before resetAt, refusals included, leave resetAt unchanged.
C32_WindowReset ==
    [][WindowResets]_vars

\* An identity was allowed 20 calls and refused, and the call at its resetAt was allowed
\* and opened a new window
C32_Witness ==
    /\ ~IsNull(fn.output)
    /\ Val(fn.output).result.allowed
    /\ Val(fn.output).at = 60000
    /\ Val(fn.output).result.resetAt = 120000
    /\ Len(fn.log[Val(fn.output).identity]) = 21
    /\ fn.checks[Val(fn.output).identity] = 22
    /\ Val(fn.buckets[Val(fn.output).identity]).count = 1

\* ---------------------------------------------------------------------------
\* Exhaustion of the candidate loop

\* The loop has run past its last candidate and the run has returned
ExhaustedRun ==
    /\ pc = "done"
    /\ candidates # <<>>
    /\ Len(singleResults) = Len(candidates)
    /\ \A k \in Tried : ContinuableFailure(singleResults[k])

\* C33: on exhaustion with auth failures and no candidate available, the result returned
\* is that of the last candidate that failed with AUTH_FAILED; and whenever the loop is
\* exhausted a retained auth or strict-unavailable result is set, so the first-failure
\* fallback is never the value returned.
C33_LastAuthFailureOnExhaustion ==
    /\ (pc = "loop" /\ ci > Len(candidates)) =>
        (~IsNull(authFailure) \/ ~IsNull(strictUnavailableFailure))
    /\ ExhaustedRun =>
        /\ ~IsNull(returned)
        /\ returned \in {authFailure, strictUnavailableFailure}
        /\ AnyWith("AUTH_FAILED") =>
            /\ returned = Some(LastWith("AUTH_FAILED"))
            /\ returned = authFailure

\* A bare sk- key in auto mode was rejected with 401 by openrouter and then by openai:
\* the result returned is openai's
C33_Witness ==
    /\ ExhaustedRun
    /\ params.provider = "auto"
    /\ candidates = <<"openrouter", "openai">>
    /\ \A k \in 1..2 : HasErrorCode(singleResults[k], "AUTH_FAILED")
    /\ \A n \in 1..Len(answers) : answers[n].kind = "response" /\ answers[n].status = 401
    /\ Val(returned).provider = "openai"
    /\ returned # firstFailure

\* ---------------------------------------------------------------------------
\* The shape of the results

\* The shape the claim gives a result
WellShaped(r) ==
    /\ r.quota_status # "unavailable"
    /\ \A n \in 1..Len(r.errors) :
        (r.errors[n].category = "auth") <=> (r.errors[n].error_code = "AUTH_FAILED")
    /\ IF r.availability = "unavailable"
       THEN /\ r.models = <<>>
            /\ r.quota_status = "unknown"
            /\ Len(r.errors) = 1
            /\ r.errors[1].category # "quota"
       ELSE /\ r.availability = "available"
            /\ IF r.quota_status = "available"
               THEN r.errors = <<>>
               ELSE /\ Len(r.errors) = 1
                    /\ r.errors[1].error_code = "QUOTA_UNAVAILABLE"

\* C34: every result of runProviderCheck: unavailable has models = [], quota_status
\* unknown and exactly one error, not of category quota; available has no error when
\* quota_status is available and exactly one, QUOTA_UNAVAILABLE, otherwise;
\* quota_status is never "unavailable"; an error is of category auth iff its code is
\* AUTH_FAILED.
C34_ResultShape ==
    /\ \A k \in 1..Len(singleResults) : WellShaped(singleResults[k])
    /\ ~IsNull(returned) => WellShaped(Val(returned))

\* An available result without rate-limit headers was returned after a 401 of the first
\* candidate: one QUOTA_UNAVAILABLE error, and the retained failure has one auth error
C34_Witness ==
    /\ pc = "done"
    /\ Len(singleResults) = 2
    /\ singleResults[1].errors[1].category = "auth"
    /\ Val(returned).availability = "available"
    /\ Val(returned).quota_status = "unknown"
    /\ Len(Val(returned).errors) = 1

\* ---------------------------------------------------------------------------
\* runCheckOrchestration: the run, then the score and the next actions of its result

\* part_000 21-50: runProviderCheck has returned; the NormalizedCheckResult is built
OrchestrationReturns ==
    /\ pc = "done"
    /\ IsNull(fn)
    /\ LET r == Val(returned)
       IN  fn' = Some([op |-> "runCheckOrchestration",
                       output |->
                           [provider |-> r.provider,
                            availability |-> r.availability,
                            models |-> r.models,
                            quota_status |-> r.quota_status,
                            errors |-> r.errors,
                            health_score |->
                                calculateHealthScore(r.availability, r.models,
                                                     r.quota_status, r.errors),
                            next_actions |->
                                buildNextActions(r.availability, r.models,
                                                 r.quota_status, r.errors)]])
    /\ UNCHANGED runVars

NextOrchestration == Next \/ OrchestrationReturns

SpecOrchestration == Init /\ [][NextOrchestration]_vars

\* The orchestration has returned its result
Orchestrated == ~IsNull(fn) /\ pc = "done"

\* C35: an unavailable result of runProviderCheck scores 0 when its error is
\* PROVIDER_TIMEOUT and 8 otherwise; an available one scores 58, 70, 88 or 100; so no
\* unavailable result scores as high as an available one.
C35_ScoreSeparatesVerdicts ==
    Orchestrated =>
        LET out == Val(fn).output
        IN  IF out.availability = "unavailable"
            THEN /\ out.health_score =
                        (IF \E n \in 1..Len(out.errors) :
                                out.errors[n].error_code = "PROVIDER_TIMEOUT"
                         THEN 0 ELSE 8)
                 /\ out.health_score < 58
            ELSE /\ out.availability = "available"
                 /\ out.health_score \in {58, 70, 88, 100}

\* A catalog call was aborted at the deadline: unavailable with PROVIDER_TIMEOUT, score 0
C35_Witness ==
    /\ Orchestrated
    /\ Val(fn).output.availability = "unavailable"
    /\ Val(fn).output.errors[1].error_code = "PROVIDER_TIMEOUT"
    /\ Val(fn).output.health_score = 0

\* C36: the "ready to use" message is never among the next actions of an unavailable
\* result; it appears only for an available result with quota_status available and no
\* models; the next actions of an unavailable result are the quota-lookup suggestion
\* followed by the retry advice of its error.
C36_ReadyMessageOnlyWhenAvailable ==
    Orchestrated =>
        LET out == Val(fn).output
            ready == \E n \in 1..Len(out.next_actions) :
                        out.next_actions[n] = PassedSuggestion
        IN  /\ out.availability = "unavailable" => ~ready
            /\ ready => /\ out.availability = "available"
                        /\ out.quota_status = "available"
                        /\ out.models = <<>>
            /\ out.availability = "unavailable" =>
                /\ out.errors[1].retry_advice # ""
                /\ out.next_actions = <<QuotaSuggestion, out.errors[1].retry_advice>>

\* An unavailable result (401) with its two next actions
C36_Witness ==
    /\ Orchestrated
    /\ Val(fn).output.availability = "unavailable"
    /\ Val(fn).output.errors[1].error_code = "AUTH_FAILED"
    /\ Len(Val(fn).output.next_actions) = 2
    /\ Val(fn).output.next_actions[1] = QuotaSuggestion

=============================================================================
